---- MODULE Spec2Model ----
(***************************************************************************)
(* Model of ros-cdr-typescript.                                            *)
(*                                                                         *)
(* Part 1: the session client RosCdrClient (packages/ros-cdr-client),      *)
(* one instance over one WebSocket.  Variables are the private fields of   *)
(* the instance, the promises handed to callers, the abort signals the     *)
(* callers passed in, and a record of what the handler that ran last did   *)
(* (frames submitted to the socket, callbacks invoked, exception thrown).  *)
(***************************************************************************)
EXTENDS Integers, Sequences, FiniteSets, TLC

\* ------------------------------------------------------------------ bounds
MaxCalls == 2        \* create*/callService invocations per behaviour
NumSignals == 1      \* distinct AbortSignals the callers use
MaxPayloadLen == 1   \* bytes of message payload in a frame
MaxSeqLen == 2       \* elements of an array value handed to serialize
MaxTailLen == 2      \* bytes following a payload in the buffer handed to deserialize

\* --------------------------------------------------------------- constants
OP_TOPIC == 0
OP_SERVICE_REQUEST == 1
OP_SERVICE_RESPONSE == 2
\* an opcode byte the client does not know
OP_UNKNOWN == OP_SERVICE_RESPONSE + 1

\* options.signal absent; no call id / no endpoint id
NoSignal == 0 * 1
Signals == 1..NumSignals
NoCallId == 0 - 1
NoId == 0 - 1

\* endpoint ids the bridge hands out; 258 needs two little-endian bytes
EndpointIds == {1, 258}
\* the service client the caller issues its service calls against
ServiceClientIds == {258}
PayloadBytes == {7}
Payloads == UNION {[1..n -> PayloadBytes] : n \in 0..MaxPayloadLen}

CreateOps == {"create_publisher", "create_subscription", "create_service_client"}

\* ----------------------------------------------------------------- helpers
\* Map.set / Map.delete / Map.has on a Map modelled as a function
MapSet(m, k, v) == [x \in (DOMAIN m) \cup {k} |-> IF x = k THEN v ELSE m[x]]
MapDelete(m, k) == [x \in (DOMAIN m) \ {k} |-> m[x]]
MapHas(m, k) == k \in DOMAIN m
EmptyMap == << >>

\* DataView.setUint32(off, n, true): four bytes, least significant first
SetUint32LE(n) ==
  << n % 256, (n \div 256) % 256, (n \div 65536) % 256, (n \div 16777216) % 256 >>

\* DataView.getUint32(off, true) on a 1-indexed byte sequence (off is 0-based)
GetUint32LE(buf, off) ==
  buf[off + 1] + 256 * buf[off + 2] + 65536 * buf[off + 3] + 16777216 * buf[off + 4]

\* new DataView(buffer, off): the bytes from 0-based offset off to the end
ViewFrom(buf, off) == SubSeq(buf, off + 1, Len(buf))

\* ---------------------------------------------------------------- promises
NoReason == <<"none", 0>>
SendError == <<"send_error", 0>>
ReasonOf(s) == <<"abort", s>>

Pending == [kind |-> "pending", id |-> NoId, message |-> << >>, reason |-> NoReason]
ResolvedId(id) == [kind |-> "resolved", id |-> id, message |-> << >>, reason |-> NoReason]
ResolvedMessage(m) == [kind |-> "resolved", id |-> NoId, message |-> m, reason |-> NoReason]
Rejected(r) == [kind |-> "rejected", id |-> NoId, message |-> << >>, reason |-> r]

\* resolve()/reject() of a Promise: only the first settlement has an effect
Settle(outcome, new) == IF outcome.kind = "pending" THEN new ELSE outcome

\* ------------------------------------------------------------------- state
VARIABLES
  nextCallId,        \* #nextCallId
  pendingCreates,    \* #pendingCreates: call id -> resolver (handle of the call)
  subscriptions,     \* #subscriptions: subscription id -> callback (handle)
  serviceResponses,  \* #serviceResponses: call id -> resolver (handle of the call)
  calls,             \* every create*/callService invocation and its promise
  aborted,           \* the AbortSignals whose abort event has fired
  last,              \* what the handler that ran last did
  other,             \* the fields of the second RosCdrClient, the one not operated on
  theSchema,         \* codec: the message schema handed to serialize/deserialize
  theValue,          \* codec: the value handed to serialize
  thePayload,        \* codec: the bytes serialize returned / deserialize is given
  theOutput,         \* codec: what deserialize returned
  step               \* codec: which of the two calls has run

sessionVars == <<nextCallId, pendingCreates, subscriptions, serviceResponses, calls, aborted, last,
                 other>>
codecVars == <<theSchema, theValue, thePayload, theOutput, step>>
vars == <<nextCallId, pendingCreates, subscriptions, serviceResponses, calls, aborted, last,
          other, theSchema, theValue, thePayload, theOutput, step>>
tables == <<pendingCreates, subscriptions, serviceResponses>>

Handles == 1..Len(calls)

Call(op, callId, sig, listening, outcome) ==
  [op |-> op, call_id |-> callId, signal |-> sig, listening |-> listening, outcome |-> outcome]

\* the private fields and the promises as they are when a handler starts
Snapshot ==
  [nextCallId |-> nextCallId, pendingCreates |-> pendingCreates,
   subscriptions |-> subscriptions, serviceResponses |-> serviceResponses,
   calls |-> calls]

\* the record of one handler run: its input, the frames it handed to ws.send,
\* the resolvers/rejecters/callbacks it invoked, whether it threw, and the
\* fields as they were before it ran
Did(ev, input, sent, invoked, threw) ==
  [ev |-> ev, input |-> input, sent |-> sent, invoked |-> invoked, threw |-> threw,
   before |-> Snapshot]

\* ------------------------------------------------------------- wire frames
\* JSON.stringify(request) handed to ws.send
CreateRequestFrame(op, callId) ==
  [kind |-> "text", op |-> op, call_id |-> callId, id |-> NoId, bytes |-> << >>]
DestroyRequestFrame(id) ==
  [kind |-> "text", op |-> "destroy", call_id |-> NoCallId, id |-> id, bytes |-> << >>]
BinaryFrame(bytes) ==
  [kind |-> "binary", op |-> "binary", call_id |-> NoCallId, id |-> NoId, bytes |-> bytes]

\* a TOPIC frame whose id is written most significant byte first
TopicPayloadBigEndian(id, message) ==
  <<OP_TOPIC, (id \div 16777216) % 256, (id \div 65536) % 256, (id \div 256) % 256, id % 256>>
    \o message

TopicPayload(id, message) == <<OP_TOPIC>> \o SetUint32LE(id) \o message
ServiceRequestPayload(id, callId, request) ==
  <<OP_SERVICE_REQUEST>> \o SetUint32LE(id) \o SetUint32LE(callId) \o request

\* the frames the bridge answers with
ServiceResponsePayload(callId, response) ==
  <<OP_SERVICE_RESPONSE>> \o SetUint32LE(callId) \o response
CreateResponseText(id, callId) ==
  [valid |-> TRUE, t |-> "object", id |-> [t |-> "number", v |-> id],
   call_id |-> [t |-> "number", v |-> callId]]

\* ------------------------------------------------------------------- Init
\* the field initializers of a RosCdrClient (139-142)
NewSession(n) ==
  [session |-> n, nextCallId |-> 0, pendingCreates |-> EmptyMap, subscriptions |-> EmptyMap,
   serviceResponses |-> EmptyMap, calls |-> << >>]

Init ==
  /\ nextCallId = 0
  /\ pendingCreates = EmptyMap
  /\ subscriptions = EmptyMap
  /\ serviceResponses = EmptyMap
  /\ calls = << >>
  /\ aborted = {}
  /\ last = Did("new", << >>, << >>, << >>, FALSE)
  /\ other = NewSession(2)
  /\ theSchema = << >> /\ theValue = << >> /\ thePayload = << >> /\ theOutput = << >>
  /\ step = "idle"

\* ------------------------------------------------- creation of an endpoint
\* a creation that looks at the signal before it takes a call id
CreateEndpointChecksSignalFirst(op, sig, ok) ==
  /\ Len(calls) < MaxCalls
  /\ IF sig # NoSignal /\ sig \in aborted
     THEN /\ calls' = Append(calls, Call(op, NoCallId, sig, FALSE, Rejected(ReasonOf(sig))))
          /\ UNCHANGED <<nextCallId, pendingCreates>>
          /\ last' = Did(op, << >>, << >>, << >>, FALSE)
     ELSE /\ nextCallId' = nextCallId + 1
          /\ pendingCreates' = MapSet(pendingCreates, nextCallId, Len(calls) + 1)
          /\ calls' = Append(calls, Call(op, nextCallId, sig, sig # NoSignal,
                                         IF ok THEN Pending ELSE Rejected(SendError)))
          /\ last' = Did(op, << >>,
                         IF ok THEN <<CreateRequestFrame(op, nextCallId)>> ELSE << >>,
                         << >>, FALSE)
  /\ UNCHANGED <<subscriptions, serviceResponses, aborted>>
  /\ UNCHANGED <<codecVars, other>>

\* createPublisher / createSubscription / createServiceClient followed by
\* #sendCreateRequest.  ok = FALSE: ws.send throws.
CreateEndpoint(op, sig, ok) ==
  /\ Len(calls) < MaxCalls
  /\ nextCallId' = nextCallId + 1
  /\ IF sig # NoSignal /\ sig \in aborted
     THEN /\ calls' = Append(calls, Call(op, nextCallId, sig, FALSE, Rejected(ReasonOf(sig))))
          /\ pendingCreates' = pendingCreates
          /\ last' = Did(op, << >>, << >>, << >>, FALSE)
     ELSE /\ pendingCreates' = MapSet(pendingCreates, nextCallId, Len(calls) + 1)
          /\ calls' = Append(calls, Call(op, nextCallId, sig, sig # NoSignal,
                                         IF ok THEN Pending ELSE Rejected(SendError)))
          /\ last' = Did(op, << >>,
                         IF ok THEN <<CreateRequestFrame(op, nextCallId)>> ELSE << >>,
                         << >>, FALSE)
  /\ UNCHANGED <<subscriptions, serviceResponses, aborted>>
  /\ UNCHANGED <<codecVars, other>>

\* ------------------------------------------------------------ callService
\* a callService that numbers its calls without advancing the shared counter
CallServiceKeepsCounter(id, request, sig, ok) ==
  /\ Len(calls) < MaxCalls
  /\ IF sig # NoSignal /\ sig \in aborted
     THEN /\ calls' = Append(calls, Call("call_service", NoCallId, sig, FALSE,
                                         Rejected(ReasonOf(sig))))
          /\ UNCHANGED <<nextCallId, serviceResponses>>
          /\ last' = Did("call_service", <<id, request>>, << >>, << >>, FALSE)
     ELSE /\ nextCallId' = nextCallId
          /\ serviceResponses' = MapSet(serviceResponses, nextCallId, Len(calls) + 1)
          /\ calls' = Append(calls, Call("call_service", nextCallId, sig, sig # NoSignal,
                                         IF ok THEN Pending ELSE Rejected(SendError)))
          /\ last' = Did("call_service", <<id, request>>,
                         IF ok THEN <<BinaryFrame(ServiceRequestPayload(id, nextCallId, request))>>
                               ELSE << >>,
                         << >>, FALSE)
  /\ UNCHANGED <<pendingCreates, subscriptions, aborted>>
  /\ UNCHANGED <<codecVars, other>>

\* callService(id, request, options).  ok = FALSE: ws.send throws.
CallService(id, request, sig, ok) ==
  /\ Len(calls) < MaxCalls
  /\ IF sig # NoSignal /\ sig \in aborted
     THEN /\ calls' = Append(calls, Call("call_service", NoCallId, sig, FALSE,
                                         Rejected(ReasonOf(sig))))
          /\ UNCHANGED <<nextCallId, serviceResponses>>
          /\ last' = Did("call_service", <<id, request>>, << >>, << >>, FALSE)
     ELSE /\ nextCallId' = nextCallId + 1
          /\ serviceResponses' = MapSet(serviceResponses, nextCallId, Len(calls) + 1)
          /\ calls' = Append(calls, Call("call_service", nextCallId, sig, sig # NoSignal,
                                         IF ok THEN Pending ELSE Rejected(SendError)))
          /\ last' = Did("call_service", <<id, request>>,
                         IF ok THEN <<BinaryFrame(ServiceRequestPayload(id, nextCallId, request))>>
                               ELSE << >>,
                         << >>, FALSE)
  /\ UNCHANGED <<pendingCreates, subscriptions, aborted>>
  /\ UNCHANGED <<codecVars, other>>

\* ---------------------------------------------------------------- publish
\* a publish that also sweeps the calls still waiting, as an expiry would
PublishExpiresCalls(id, message, ok) ==
  /\ last' = Did("publish", <<id, message>>,
                 IF ok THEN <<BinaryFrame(TopicPayload(id, message))>> ELSE << >>,
                 << >>, ~ok)
  /\ pendingCreates' = EmptyMap
  /\ serviceResponses' = EmptyMap
  /\ UNCHANGED <<nextCallId, subscriptions, calls, aborted>>
  /\ UNCHANGED <<codecVars, other>>

\* publish(id, message).  ok = FALSE: ws.send throws, and so does publish.
Publish(id, message, ok) ==
  /\ last' = Did("publish", <<id, message>>,
                 IF ok THEN <<BinaryFrame(TopicPayload(id, message))>> ELSE << >>,
                 << >>, ~ok)
  /\ UNCHANGED <<nextCallId, pendingCreates, subscriptions, serviceResponses, calls, aborted>>
  /\ UNCHANGED <<codecVars, other>>

\* ---------------------------------------------------------------- destroy
\* a destroy that also drops the service calls still waiting
DestroyCancelsCalls(id, ok) ==
  /\ IF ok
     THEN /\ subscriptions' = MapDelete(subscriptions, id)
          /\ serviceResponses' = EmptyMap
          /\ last' = Did("destroy", <<id>>, <<DestroyRequestFrame(id)>>, << >>, FALSE)
     ELSE /\ UNCHANGED <<subscriptions, serviceResponses>>
          /\ last' = Did("destroy", <<id>>, << >>, << >>, TRUE)
  /\ UNCHANGED <<nextCallId, pendingCreates, calls, aborted>>
  /\ UNCHANGED <<codecVars, other>>

\* destroy(id): #sendTextPayload first, #subscriptions.delete after it.
\* ok = FALSE: ws.send throws, destroy ends there and the delete is not reached.
Destroy(id, ok) ==
  /\ IF ok
     THEN /\ subscriptions' = MapDelete(subscriptions, id)
          /\ last' = Did("destroy", <<id>>, <<DestroyRequestFrame(id)>>, << >>, FALSE)
     ELSE /\ subscriptions' = subscriptions
          /\ last' = Did("destroy", <<id>>, << >>, << >>, TRUE)
  /\ UNCHANGED <<nextCallId, pendingCreates, serviceResponses, calls, aborted>>
  /\ UNCHANGED <<codecVars, other>>

\* ------------------------------------------------------------ cancellation
Invocation(fn, h, id, message) == [fn |-> fn, h |-> h, id |-> id, message |-> message]

\* the table a call's resolver is registered in
IsCreate(h) == calls[h].op \in CreateOps
EntryPresent(h) ==
  IF IsCreate(h) THEN MapHas(pendingCreates, calls[h].call_id)
                 ELSE MapHas(serviceResponses, calls[h].call_id)

\* onAbort of call h (callService 235-239, #sendCreateRequest 270-274):
\* reject only when the delete found the entry
OnAbortRejects(h) == EntryPresent(h)

\* the abort listeners that run when signal s fires
Listeners(s) == {h \in Handles : calls[h].signal = s /\ calls[h].listening}

RECURSIVE SeqOfSet(_)
SeqOfSet(S) ==
  IF S = {} THEN << >>
  ELSE LET m == CHOOSE x \in S : \A y \in S : x <= y
       IN  <<m>> \o SeqOfSet(S \ {m})

\* an onAbort that forgets the delete
AbortDeletesNothing(fired) == {}

\* the keys the onAbort listeners in `fired` delete from #pendingCreates (271)
\* and from #serviceResponses (236)
AbortDeletesCreates(fired) == {calls[h].call_id : h \in {x \in fired : IsCreate(x)}}
AbortDeletesServices(fired) == {calls[h].call_id : h \in {x \in fired : ~IsCreate(x)}}

\* controller.abort() of signal s: every registered onAbort runs, once
Abort(s) ==
  /\ s \notin aborted
  /\ aborted' = aborted \cup {s}
  /\ LET fired == Listeners(s)
         rejected == {h \in fired : OnAbortRejects(h)}
     IN  /\ pendingCreates' =
               [k \in (DOMAIN pendingCreates) \ AbortDeletesCreates(fired) |-> pendingCreates[k]]
         /\ serviceResponses' =
               [k \in (DOMAIN serviceResponses) \ AbortDeletesServices(fired)
                  |-> serviceResponses[k]]
         /\ calls' = [h \in Handles |->
               IF h \in fired
               THEN [calls[h] EXCEPT !.listening = FALSE,
                                     !.outcome = IF h \in rejected
                                                 THEN Settle(@, Rejected(ReasonOf(s))) ELSE @]
               ELSE calls[h]]
         /\ last' = Did("abort", <<s>>, << >>,
                        [i \in 1..Cardinality(rejected) |->
                           Invocation("reject", SeqOfSet(rejected)[i], NoId, << >>)],
                        FALSE)
  /\ UNCHANGED <<nextCallId, subscriptions>>
  /\ UNCHANGED <<codecVars, other>>

\* ---------------------------------------------------------- incoming text
\* A text frame: either not JSON at all, or the JSON value it spells.
\* Field values of a JSON object: absent, a non-number (string), or a number.
Missing == [t |-> "missing", v |-> 0]
NotANumber == [t |-> "string", v |-> 0]
Num(n) == [t |-> "number", v |-> n]

NotJson == [valid |-> FALSE, t |-> "none", id |-> Missing, call_id |-> Missing]
JsonNull == [valid |-> TRUE, t |-> "null", id |-> Missing, call_id |-> Missing]
JsonNumber == [valid |-> TRUE, t |-> "number", id |-> Missing, call_id |-> Missing]
JsonArray == [valid |-> TRUE, t |-> "array", id |-> Missing, call_id |-> Missing]
JsonObject(id, callId) == [valid |-> TRUE, t |-> "object", id |-> id, call_id |-> callId]

NullResponse(threw) == [ok |-> FALSE, threw |-> threw, id |-> NoId, call_id |-> NoCallId]

\* a parse that forgets the check of `id`
parseTextPayloadNoIdCheck(payload) ==
  IF ~payload.valid THEN NullResponse(FALSE)
  ELSE IF payload.t \notin {"object", "array"} THEN NullResponse(FALSE)
  ELSE IF payload.call_id.t # "number" THEN NullResponse(FALSE)
  ELSE [ok |-> TRUE, threw |-> FALSE, id |-> payload.id.v, call_id |-> payload.call_id.v]

\* parseTextPayload: JSON.parse inside try/catch, then the shape checks.
\* typeof [] is 'object'; an array parsed from JSON has no 'id' property.
parseTextPayload(payload) ==
  IF ~payload.valid THEN NullResponse(FALSE)
  ELSE IF payload.t \notin {"object", "array"} THEN NullResponse(FALSE)
  ELSE IF payload.id.t # "number" THEN NullResponse(FALSE)
  ELSE IF payload.call_id.t # "number" THEN NullResponse(FALSE)
  ELSE [ok |-> TRUE, threw |-> FALSE, id |-> payload.id.v, call_id |-> payload.call_id.v]

\* a resolver that stores the subscription's callback itself, whatever has
\* become of the creation's promise
ResolveCreateAlways(h, id) ==
  /\ calls' = [calls EXCEPT ![h].listening = FALSE,
                            ![h].outcome = Settle(@, ResolvedId(id))]
  /\ subscriptions' =
       IF calls[h].op = "create_subscription"
       THEN MapSet(subscriptions, id, h) ELSE subscriptions

\* the resolver registered by #sendCreateRequest (277-280) runs for call h;
\* createSubscription's continuation (185) runs when its await yields id
ResolveCreate(h, id) ==
  /\ calls' = [calls EXCEPT ![h].listening = FALSE,
                            ![h].outcome = Settle(@, ResolvedId(id))]
  /\ subscriptions' =
       IF calls[h].op = "create_subscription" /\ calls[h].outcome.kind = "pending"
       THEN MapSet(subscriptions, id, h) ELSE subscriptions

\* a lookup that ignores call_id and takes the oldest pending creation
DeliverCreateResponseOldest(payload, response) ==
  IF pendingCreates # EmptyMap
  THEN LET k == CHOOSE x \in DOMAIN pendingCreates : \A y \in DOMAIN pendingCreates : x <= y
           h == pendingCreates[k]
       IN  /\ pendingCreates' = MapDelete(pendingCreates, k)
           /\ ResolveCreate(h, response.id)
           /\ last' = Did("text", payload, << >>,
                          <<Invocation("resolve", h, response.id, << >>)>>, FALSE)
  ELSE /\ UNCHANGED <<pendingCreates, subscriptions, calls>>
       /\ last' = Did("text", payload, << >>, << >>, FALSE)

\* a lookup that deletes the entry and forgets to invoke the resolver
DeliverCreateResponseDropsResolver(payload, response) ==
  IF MapHas(pendingCreates, response.call_id)
  THEN /\ pendingCreates' = MapDelete(pendingCreates, response.call_id)
       /\ UNCHANGED <<subscriptions, calls>>
       /\ last' = Did("text", payload, << >>, << >>, FALSE)
  ELSE /\ UNCHANGED <<pendingCreates, subscriptions, calls>>
       /\ last' = Did("text", payload, << >>, << >>, FALSE)

\* a lookup that, finding no creation, takes the service call registered under
\* call_id and resolves that
DeliverCreateResponseAnyTable(payload, response) ==
  IF MapHas(pendingCreates, response.call_id)
  THEN LET h == pendingCreates[response.call_id]
       IN  /\ pendingCreates' = MapDelete(pendingCreates, response.call_id)
           /\ ResolveCreate(h, response.id)
           /\ last' = Did("text", payload, << >>,
                          <<Invocation("resolve", h, response.id, << >>)>>, FALSE)
  ELSE IF MapHas(serviceResponses, response.call_id)
  THEN LET h == serviceResponses[response.call_id]
       IN  /\ calls' = [calls EXCEPT ![h].listening = FALSE,
                                     ![h].outcome = Settle(@, ResolvedId(response.id))]
           /\ UNCHANGED <<pendingCreates, subscriptions>>
           /\ last' = Did("text", payload, << >>,
                          <<Invocation("resolve", h, response.id, << >>)>>, FALSE)
  ELSE /\ UNCHANGED <<pendingCreates, subscriptions, calls>>
       /\ last' = Did("text", payload, << >>, << >>, FALSE)

\* #onTextPayload 314-318: look the resolver up by call_id, delete, invoke
DeliverCreateResponse(payload, response) ==
  IF MapHas(pendingCreates, response.call_id)
  THEN LET h == pendingCreates[response.call_id]
       IN  /\ pendingCreates' = MapDelete(pendingCreates, response.call_id)
           /\ ResolveCreate(h, response.id)
           /\ last' = Did("text", payload, << >>,
                          <<Invocation("resolve", h, response.id, << >>)>>, FALSE)
  ELSE /\ UNCHANGED <<pendingCreates, subscriptions, calls>>
       /\ last' = Did("text", payload, << >>, << >>, FALSE)

\* #onTextPayload
OnTextPayload(payload) ==
  LET response == parseTextPayload(payload)
  IN  /\ IF response.ok
         THEN DeliverCreateResponse(payload, response)
         ELSE /\ UNCHANGED <<pendingCreates, subscriptions, calls>>
              /\ last' = Did("text", payload, << >>, << >>, response.threw)
      /\ UNCHANGED <<nextCallId, serviceResponses, aborted>>
      /\ UNCHANGED <<codecVars, other>>

\* -------------------------------------------------------- incoming binary
NullMessage(threw) ==
  [ok |-> FALSE, threw |-> threw, opcode |-> NoId, id |-> NoId, call_id |-> NoCallId,
   message |-> << >>]

\* a parse that takes every opcode other than SERVICE_RESPONSE for TOPIC
parseBinaryPayloadAnyOpcode(buffer) ==
  IF Len(buffer) < 5 THEN NullMessage(FALSE)
  ELSE IF buffer[1] = OP_SERVICE_RESPONSE
       THEN [ok |-> TRUE, threw |-> FALSE, opcode |-> OP_SERVICE_RESPONSE,
             id |-> NoId, call_id |-> GetUint32LE(buffer, 1),
             message |-> ViewFrom(buffer, 5)]
       ELSE [ok |-> TRUE, threw |-> FALSE, opcode |-> OP_TOPIC,
             id |-> GetUint32LE(buffer, 1), call_id |-> NoCallId,
             message |-> ViewFrom(buffer, 5)]

\* a parse that starts the message one byte early
parseBinaryPayloadHeader4(buffer) ==
  IF Len(buffer) < 5 THEN NullMessage(FALSE)
  ELSE IF buffer[1] = OP_TOPIC
       THEN [ok |-> TRUE, threw |-> FALSE, opcode |-> OP_TOPIC,
             id |-> GetUint32LE(buffer, 1), call_id |-> NoCallId,
             message |-> ViewFrom(buffer, 4)]
       ELSE IF buffer[1] = OP_SERVICE_RESPONSE
       THEN [ok |-> TRUE, threw |-> FALSE, opcode |-> OP_SERVICE_RESPONSE,
             id |-> NoId, call_id |-> GetUint32LE(buffer, 1),
             message |-> ViewFrom(buffer, 4)]
       ELSE NullMessage(FALSE)

\* parseBinaryPayload
parseBinaryPayload(buffer) ==
  IF Len(buffer) < 5 THEN NullMessage(FALSE)
  ELSE LET opcode == buffer[1]
       IN  IF opcode = OP_TOPIC
           THEN [ok |-> TRUE, threw |-> FALSE, opcode |-> OP_TOPIC,
                 id |-> GetUint32LE(buffer, 1), call_id |-> NoCallId,
                 message |-> ViewFrom(buffer, 5)]
           ELSE IF opcode = OP_SERVICE_RESPONSE
           THEN [ok |-> TRUE, threw |-> FALSE, opcode |-> OP_SERVICE_RESPONSE,
                 id |-> NoId, call_id |-> GetUint32LE(buffer, 1),
                 message |-> ViewFrom(buffer, 5)]
           ELSE NullMessage(FALSE)

\* the resolver registered by callService (242-245) runs for call h
ResolveService(h, response) ==
  calls' = [calls EXCEPT ![h].listening = FALSE,
                         ![h].outcome = Settle(@, ResolvedMessage(response))]

\* a delivery that holds TOPIC frames back while a service call is waiting
DeliverTopicAfterResponses(payload, message) ==
  /\ last' = Did("binary", payload, << >>,
                 IF MapHas(subscriptions, message.id) /\ serviceResponses = EmptyMap
                 THEN <<Invocation("callback", subscriptions[message.id], message.id,
                                   message.message)>>
                 ELSE << >>,
                 FALSE)
  /\ UNCHANGED <<serviceResponses, calls>>

\* #onBinaryPayload 326-329: the callback registered for the id, if any
DeliverTopic(payload, message) ==
  /\ last' = Did("binary", payload, << >>,
                 IF MapHas(subscriptions, message.id)
                 THEN <<Invocation("callback", subscriptions[message.id], message.id,
                                   message.message)>>
                 ELSE << >>,
                 FALSE)
  /\ UNCHANGED <<serviceResponses, calls>>

\* a delivery that invokes the resolver and leaves its entry in the table
DeliverServiceResponseNoDelete(payload, message) ==
  IF MapHas(serviceResponses, message.call_id)
  THEN LET h == serviceResponses[message.call_id]
       IN  /\ serviceResponses' = serviceResponses
           /\ ResolveService(h, message.message)
           /\ last' = Did("binary", payload, << >>,
                          <<Invocation("resolve", h, NoId, message.message)>>, FALSE)
  ELSE /\ UNCHANGED <<serviceResponses, calls>>
       /\ last' = Did("binary", payload, << >>, << >>, FALSE)

\* a delivery that ignores call_id and resolves the oldest waiting service call
DeliverServiceResponseOldest(payload, message) ==
  IF serviceResponses # EmptyMap
  THEN LET k == CHOOSE x \in DOMAIN serviceResponses :
                   \A y \in DOMAIN serviceResponses : x <= y
           h == serviceResponses[k]
       IN  /\ serviceResponses' = MapDelete(serviceResponses, k)
           /\ ResolveService(h, message.message)
           /\ last' = Did("binary", payload, << >>,
                          <<Invocation("resolve", h, NoId, message.message)>>, FALSE)
  ELSE /\ UNCHANGED <<serviceResponses, calls>>
       /\ last' = Did("binary", payload, << >>, << >>, FALSE)

\* #onBinaryPayload 330-337: look the resolver up by call_id, delete, invoke
DeliverServiceResponse(payload, message) ==
  IF MapHas(serviceResponses, message.call_id)
  THEN LET h == serviceResponses[message.call_id]
       IN  /\ serviceResponses' = MapDelete(serviceResponses, message.call_id)
           /\ ResolveService(h, message.message)
           /\ last' = Did("binary", payload, << >>,
                          <<Invocation("resolve", h, NoId, message.message)>>, FALSE)
  ELSE /\ UNCHANGED <<serviceResponses, calls>>
       /\ last' = Did("binary", payload, << >>, << >>, FALSE)

\* #onBinaryPayload
OnBinaryPayload(payload) ==
  LET message == parseBinaryPayload(payload)
  IN  /\ IF ~message.ok
         THEN /\ UNCHANGED <<serviceResponses, calls>>
              /\ last' = Did("binary", payload, << >>, << >>, message.threw)
         ELSE IF message.opcode = OP_TOPIC
         THEN DeliverTopic(payload, message)
         ELSE DeliverServiceResponse(payload, message)
      /\ UNCHANGED <<nextCallId, pendingCreates, subscriptions, aborted>>
      /\ UNCHANGED <<codecVars, other>>

\* #onMessage: a string goes to #onTextPayload, an ArrayBuffer to #onBinaryPayload
OnMessage(event) ==
  IF event.string THEN OnTextPayload(event.data) ELSE OnBinaryPayload(event.data)

\* ------------------------------------------------------------------ inputs
CallIds == 0..MaxCalls       \* MaxCalls itself is never issued
FieldValues == {Missing, NotANumber}
TextPayloads ==
  {NotJson, JsonNull, JsonNumber, JsonArray}
  \cup {JsonObject(Num(1), f) : f \in FieldValues}
  \cup {JsonObject(f, Num(0)) : f \in FieldValues}
  \cup {CreateResponseText(i, c) : i \in EndpointIds, c \in CallIds}

InFrames ==
  {TopicPayload(i, m) : i \in EndpointIds, m \in Payloads}
  \cup {ServiceResponsePayload(c, m) : c \in CallIds, m \in Payloads}
  \cup {ServiceRequestPayload(1, 0, << >>), <<OP_UNKNOWN>> \o SetUint32LE(1)}
  \cup {<< >>, <<OP_TOPIC>>, SubSeq(TopicPayload(1, << >>), 1, 4),
        <<OP_SERVICE_RESPONSE>> \o SubSeq(SetUint32LE(0), 1, 3)}

MessageEvents ==
  {[string |-> TRUE, data |-> p] : p \in TextPayloads}
  \cup {[string |-> FALSE, data |-> f] : f \in InFrames}

Next ==
  \/ \E op \in CreateOps, sig \in Signals \cup {NoSignal}, ok \in BOOLEAN :
        CreateEndpoint(op, sig, ok)
  \/ \E id \in ServiceClientIds, request \in Payloads, sig \in Signals \cup {NoSignal}, ok \in BOOLEAN :
        CallService(id, request, sig, ok)
  \/ \E id \in EndpointIds, message \in Payloads, ok \in BOOLEAN : Publish(id, message, ok)
  \/ \E id \in EndpointIds, ok \in BOOLEAN : Destroy(id, ok)
  \/ \E s \in Signals : Abort(s)
  \/ \E event \in MessageEvents : OnMessage(event)

Spec == Init /\ [][Next]_vars

\* the frames of a bridge that sends only responses and TOPIC frames, and a
\* caller whose publish and destroy go through
ResponseEvents ==
  {[string |-> TRUE, data |-> CreateResponseText(i, c)] : i \in EndpointIds, c \in CallIds}
  \cup {[string |-> FALSE, data |-> ServiceResponsePayload(c, m)] : c \in CallIds, m \in Payloads}
  \cup {[string |-> FALSE, data |-> TopicPayload(i, << >>)] : i \in EndpointIds}

\* ------------------------------------------------------------ two clients
\* two RosCdrClient objects over two sockets: the variables hold the fields of
\* the one whose method or onmessage runs next, `other` those of the second.
\* a class whose call-id counter is one module-level variable
SwitchSessionSharedCounter ==
  /\ other' = [session |-> 3 - other.session, nextCallId |-> nextCallId,
               pendingCreates |-> pendingCreates, subscriptions |-> subscriptions,
               serviceResponses |-> serviceResponses, calls |-> calls]
  /\ nextCallId' = nextCallId
  /\ pendingCreates' = other.pendingCreates
  /\ subscriptions' = other.subscriptions
  /\ serviceResponses' = other.serviceResponses
  /\ calls' = other.calls
  /\ last' = [ev |-> "switch", input |-> << >>, sent |-> << >>, invoked |-> << >>,
              threw |-> FALSE,
              before |-> [nextCallId |-> nextCallId,
                          pendingCreates |-> other.pendingCreates,
                          subscriptions |-> other.subscriptions,
                          serviceResponses |-> other.serviceResponses,
                          calls |-> other.calls]]
  /\ UNCHANGED <<aborted, codecVars>>

\* the next method call or frame is the second client's: `this` is the other
\* object, each with its own #pendingCreates, #subscriptions,
\* #serviceResponses and #nextCallId
SwitchSession ==
  /\ other' = [session |-> 3 - other.session, nextCallId |-> nextCallId,
               pendingCreates |-> pendingCreates, subscriptions |-> subscriptions,
               serviceResponses |-> serviceResponses, calls |-> calls]
  /\ nextCallId' = other.nextCallId
  /\ pendingCreates' = other.pendingCreates
  /\ subscriptions' = other.subscriptions
  /\ serviceResponses' = other.serviceResponses
  /\ calls' = other.calls
  /\ last' = [ev |-> "switch", input |-> << >>, sent |-> << >>, invoked |-> << >>,
              threw |-> FALSE,
              before |-> [nextCallId |-> other.nextCallId,
                          pendingCreates |-> other.pendingCreates,
                          subscriptions |-> other.subscriptions,
                          serviceResponses |-> other.serviceResponses,
                          calls |-> other.calls]]
  /\ UNCHANGED <<aborted, codecVars>>

\* the two clients make MaxCalls calls between them, without signals
NextTwo ==
  \/ SwitchSession
  \/ /\ Len(calls) + Len(other.calls) < MaxCalls
     /\ \/ \E op \in CreateOps, ok \in BOOLEAN : CreateEndpoint(op, NoSignal, ok)
        \/ \E id \in ServiceClientIds, ok \in BOOLEAN : CallService(id, << >>, NoSignal, ok)
  \/ \E id \in EndpointIds : Publish(id, << >>, TRUE)
  \/ \E id \in EndpointIds : Destroy(id, TRUE)
  \/ \E event \in ResponseEvents : OnMessage(event)

SpecTwo == Init /\ [][NextTwo]_vars

\* the bridge answers: the response to a call that is registered arrives, and
\* the event loop runs #onMessage for every frame that has arrived
CreateResponseArrives(c) ==
  /\ MapHas(pendingCreates, c)
  /\ \E i \in EndpointIds : OnMessage([string |-> TRUE, data |-> CreateResponseText(i, c)])
ServiceResponseArrives(c) ==
  /\ MapHas(serviceResponses, c)
  /\ \E m \in Payloads : OnMessage([string |-> FALSE, data |-> ServiceResponsePayload(c, m)])

Answered ==
  \A c \in 0..(MaxCalls - 1) :
     WF_vars(CreateResponseArrives(c)) /\ WF_vars(ServiceResponseArrives(c))

NextAnswered ==
  \/ \E op \in CreateOps, sig \in Signals \cup {NoSignal}, ok \in BOOLEAN :
        CreateEndpoint(op, sig, ok)
  \/ \E id \in ServiceClientIds, sig \in Signals \cup {NoSignal}, ok \in BOOLEAN :
        CallService(id, << >>, sig, ok)
  \/ \E id \in EndpointIds : Publish(id, << >>, TRUE)
  \/ \E id \in EndpointIds : Destroy(id, TRUE)
  \/ \E s \in Signals : Abort(s)
  \/ \E event \in ResponseEvents : OnMessage(event)

SpecAnswered == Init /\ [][NextAnswered]_vars /\ Answered

\* ------------------------------------------------- call ids of full width
\* The counter is a JavaScript number: ++ is exact far beyond 2^32, while
\* setUint32 stores its argument modulo 2^32.  Here a number is written as its
\* five base-256 digits, least significant first, so that 2^32 is
\* <<0, 0, 0, 0, 1>>; the call ids of the other specifications stay small and
\* are plain integers.
RECURSIVE PlusOne(_)
\* n + 1
PlusOne(n) ==
  IF n = << >> THEN << >>
  ELSE IF Head(n) < 255 THEN <<Head(n) + 1>> \o Tail(n)
  ELSE <<0>> \o PlusOne(Tail(n))

\* DataView.setUint32(off, n, true): n modulo 2^32, least significant byte first
SetUint32Wide(n) == SubSeq(n, 1, 4)
\* DataView.getUint32(off, true): the number the four bytes spell
GetUint32Wide(buf, off) == SubSeq(buf, off + 1, off + 4) \o <<0>>

RECURSIVE PlusMany(_, _)
PlusMany(n, k) == IF k = 0 THEN n ELSE PlusMany(PlusOne(n), k - 1)

\* values of #nextCallId with nothing registered (every create* given a fired
\* signal advances the counter and registers nothing): 0, 255, 2^32 - 2,
\* 2^32 - 1, 2^32
CounterValues ==
  {<<0, 0, 0, 0, 0>>, <<255, 0, 0, 0, 0>>, <<254, 255, 255, 255, 0>>,
   <<255, 255, 255, 255, 0>>, <<0, 0, 0, 0, 1>>}
\* the call ids a bridge may echo: those of the calls that can have been issued
EchoedCallIds ==
  {SetUint32Wide(PlusMany(c, k)) : c \in CounterValues, k \in 0..(MaxCalls - 1)}

InitWide ==
  /\ nextCallId \in CounterValues
  /\ pendingCreates = EmptyMap
  /\ subscriptions = EmptyMap
  /\ serviceResponses = EmptyMap
  /\ calls = << >>
  /\ aborted = {}
  /\ last = Did("new", << >>, << >>, << >>, FALSE)
  /\ other = NewSession(2)
  /\ theSchema = << >> /\ theValue = << >> /\ thePayload = << >> /\ theOutput = << >>
  /\ step = "idle"

\* a callService that registers its resolver under the id as the wire carries it
CallServiceWideWrappedKey(id, request) ==
  /\ Len(calls) < MaxCalls
  /\ LET callId == GetUint32Wide(SetUint32Wide(nextCallId), 0)
     IN  /\ nextCallId' = PlusOne(nextCallId)
         /\ serviceResponses' = MapSet(serviceResponses, callId, Len(calls) + 1)
         /\ calls' = Append(calls, Call("call_service", callId, NoSignal, FALSE, Pending))
         /\ last' = Did("call_service", <<id, request>>,
                        <<BinaryFrame(<<OP_SERVICE_REQUEST>> \o SetUint32LE(id)
                                        \o SetUint32Wide(callId) \o request)>>,
                        << >>, FALSE)
  /\ UNCHANGED <<pendingCreates, subscriptions, aborted>>
  /\ UNCHANGED <<codecVars, other>>

\* callService(id, request) without a signal, the send returning (226-252)
CallServiceWide(id, request) ==
  /\ Len(calls) < MaxCalls
  /\ LET callId == nextCallId
     IN  /\ nextCallId' = PlusOne(nextCallId)
         /\ serviceResponses' = MapSet(serviceResponses, callId, Len(calls) + 1)
         /\ calls' = Append(calls, Call("call_service", callId, NoSignal, FALSE, Pending))
         /\ last' = Did("call_service", <<id, request>>,
                        <<BinaryFrame(<<OP_SERVICE_REQUEST>> \o SetUint32LE(id)
                                        \o SetUint32Wide(callId) \o request)>>,
                        << >>, FALSE)
  /\ UNCHANGED <<pendingCreates, subscriptions, aborted>>
  /\ UNCHANGED <<codecVars, other>>

\* #onBinaryPayload on a SERVICE_RESPONSE frame (parseBinaryPayload 126-133,
\* then 330-337)
OnServiceResponseWide(payload) ==
  /\ Len(payload) >= 5 /\ payload[1] = OP_SERVICE_RESPONSE
  /\ LET call_id == GetUint32Wide(payload, 1)
         message == ViewFrom(payload, 5)
     IN  IF MapHas(serviceResponses, call_id)
         THEN LET h == serviceResponses[call_id]
              IN  /\ serviceResponses' = MapDelete(serviceResponses, call_id)
                  /\ ResolveService(h, message)
                  /\ last' = Did("binary", payload, << >>,
                                 <<Invocation("resolve", h, NoId, message)>>, FALSE)
         ELSE /\ UNCHANGED <<serviceResponses, calls>>
              /\ last' = Did("binary", payload, << >>, << >>, FALSE)
  /\ UNCHANGED <<nextCallId, pendingCreates, subscriptions, aborted>>
  /\ UNCHANGED <<codecVars, other>>

NextWide ==
  \/ \E id \in ServiceClientIds, request \in Payloads : CallServiceWide(id, request)
  \/ \E c \in EchoedCallIds, m \in Payloads :
        OnServiceResponseWide(<<OP_SERVICE_RESPONSE>> \o c \o m)

SpecWide == InitWide /\ [][NextWide]_vars

\* ================================================================== claims
\* what the last handler found when it started
Before == last.before
Existed(h) == h \in DOMAIN Before.calls
WasPending(h) == Existed(h) /\ Before.calls[h].outcome.kind = "pending"
HadEntry(h) ==
  IF IsCreate(h) THEN MapHas(Before.pendingCreates, calls[h].call_id)
                 ELSE MapHas(Before.serviceResponses, calls[h].call_id)
NothingChanged == Before = Snapshot
JustResolved(h) == calls[h].outcome.kind = "resolved" /\ ~(Existed(h) /\ ~WasPending(h))
\* the resolver/rejecter invocations of the last handler run that are for call h
InvokedFor(h) ==
  {i \in 1..Len(last.invoked) :
     last.invoked[i].h = h /\ last.invoked[i].fn \in {"resolve", "reject"}}

\* the last frame was a well-formed CreateResponse / a SERVICE_RESPONSE for call id c
IsCreateResponseFor(c) ==
  /\ last.ev = "text" /\ last.input.valid /\ last.input.t = "object"
  /\ last.input.id.t = "number" /\ last.input.call_id = Num(c)
IsServiceResponseFor(c) ==
  /\ last.ev = "binary" /\ Len(last.input) >= 5 /\ last.input[1] = OP_SERVICE_RESPONSE
  /\ GetUint32LE(last.input, 1) = c

\* the call was cancelled while it was waiting for its response
CancelledBefore(h) ==
  /\ Existed(h) /\ calls[h].signal # NoSignal
  /\ Before.calls[h].outcome = Rejected(ReasonOf(calls[h].signal))

\* C1: a creation resolves with the id of the CreateResponse whose call_id is its
\* own, whatever the arrival order: a creation that has just resolved was resolved
\* by the response addressed to it and holds that response's id; a response
\* addressed to a waiting creation resolves it; no text frame settles any other call.
C1_OutOfOrderCorrelation ==
  /\ \A h \in Handles :
       (IsCreate(h) /\ JustResolved(h)) =>
          /\ IsCreateResponseFor(calls[h].call_id)
          /\ calls[h].outcome = ResolvedId(last.input.id.v)
  /\ \A h \in Handles :
       (IsCreate(h) /\ WasPending(h) /\ IsCreateResponseFor(calls[h].call_id)) =>
          calls[h].outcome = ResolvedId(last.input.id.v)
  /\ last.ev = "text" =>
       \A h \in Handles :
          (Existed(h) /\ ~(IsCreate(h) /\ IsCreateResponseFor(calls[h].call_id))) =>
             calls[h].outcome = Before.calls[h].outcome

\* two creations were outstanding together and the second was answered first
C1_Witness ==
  /\ Len(calls) >= 2 /\ IsCreate(1) /\ IsCreate(2)
  /\ last.ev = "text" /\ WasPending(1) /\ JustResolved(1)
  /\ Before.calls[2].outcome.kind = "resolved"
  /\ calls[1].outcome.id # calls[2].outcome.id

\* C2: when the signal of a waiting callService fires, its entry leaves
\* #serviceResponses and the call rejects with the signal's reason; a
\* SERVICE_RESPONSE with that call id arriving later invokes nothing, throws
\* nothing and changes no field and no promise.
C2_ServiceCallCancellation ==
  /\ last.ev = "abort" =>
       \A h \in Handles :
          (~IsCreate(h) /\ WasPending(h) /\ calls[h].signal = last.input[1]) =>
             /\ ~MapHas(serviceResponses, calls[h].call_id)
             /\ calls[h].outcome = Rejected(ReasonOf(calls[h].signal))
  /\ \A h \in Handles :
       (~IsCreate(h) /\ CancelledBefore(h) /\ IsServiceResponseFor(calls[h].call_id)) =>
          /\ last.invoked = << >>
          /\ ~last.threw
          /\ NothingChanged

\* a SERVICE_RESPONSE arrived for a service call that had been cancelled while waiting
C2_Witness ==
  \E h \in Handles :
     /\ ~IsCreate(h) /\ CancelledBefore(h) /\ calls[h].call_id # NoCallId
     /\ IsServiceResponseFor(calls[h].call_id)

\* C3: when the signal of a waiting creation fires, its entry leaves
\* #pendingCreates and the creation rejects with the signal's reason; a
\* CreateResponse with that call id arriving later invokes nothing, throws nothing
\* and changes no field and no promise.
C3_CreationCancellation ==
  /\ last.ev = "abort" =>
       \A h \in Handles :
          (IsCreate(h) /\ WasPending(h) /\ calls[h].signal = last.input[1]) =>
             /\ ~MapHas(pendingCreates, calls[h].call_id)
             /\ calls[h].outcome = Rejected(ReasonOf(calls[h].signal))
  /\ \A h \in Handles :
       (IsCreate(h) /\ CancelledBefore(h) /\ IsCreateResponseFor(calls[h].call_id)) =>
          /\ last.invoked = << >>
          /\ ~last.threw
          /\ NothingChanged

\* a CreateResponse arrived for a creation that had been cancelled while waiting
C3_Witness ==
  \E h \in Handles :
     /\ IsCreate(h) /\ CancelledBefore(h)
     /\ IsCreateResponseFor(calls[h].call_id)

\* C4: first completion wins.  For every call: a settled promise never changes;
\* an entry that has left its table never comes back; an entry leaves its table
\* in the same handler run that invokes the call's resolver (a response with its
\* call id) or its rejecter (its signal firing), exactly once, and nothing is
\* invoked for a call whose entry did not leave; a waiting call takes the outcome
\* of that first completion; a call that resolved or was cancelled has no entry,
\* so a later abort or a second response with its call id finds nothing to do.
C4_FirstCompletionWins ==
  /\ \A h \in Handles :
       Existed(h) =>
          /\ ~WasPending(h) => calls[h].outcome = Before.calls[h].outcome
          /\ ~HadEntry(h) => ~EntryPresent(h)
          /\ (HadEntry(h) /\ ~EntryPresent(h)) =>
                /\ Cardinality(InvokedFor(h)) = 1
                /\ \A i \in InvokedFor(h) :
                      \/ /\ last.invoked[i].fn = "resolve"
                         /\ IF IsCreate(h) THEN IsCreateResponseFor(calls[h].call_id)
                                           ELSE IsServiceResponseFor(calls[h].call_id)
                         /\ WasPending(h) => calls[h].outcome.kind = "resolved"
                      \/ /\ last.invoked[i].fn = "reject"
                         /\ last.ev = "abort" /\ last.input[1] = calls[h].signal
                         /\ WasPending(h) => calls[h].outcome = Rejected(ReasonOf(calls[h].signal))
          /\ (HadEntry(h) <=> EntryPresent(h)) => InvokedFor(h) = {}
          /\ (Before.calls[h].outcome.kind = "resolved" /\ last.ev \in {"abort", "text", "binary"}) =>
                /\ InvokedFor(h) = {}
                /\ calls[h] = Before.calls[h]
  /\ \A h \in Handles :
       /\ calls[h].outcome.kind = "pending" => EntryPresent(h)
       /\ (calls[h].outcome.kind = "resolved" \/ calls[h].outcome.reason[1] = "abort") =>
             ~EntryPresent(h)

\* a service call resolved, and afterwards its signal fired
C4_Witness ==
  \E h \in Handles :
     /\ ~IsCreate(h) /\ Existed(h) /\ Before.calls[h].outcome.kind = "resolved"
     /\ last.ev = "abort" /\ last.input[1] = calls[h].signal

\* C5: a call whose send failed has no entry left in either pending table.
C5_SendFailureRemovesEntry ==
  \A h \in Handles : calls[h].outcome = Rejected(SendError) => ~EntryPresent(h)

\* C6: a binary frame of fewer than 5 bytes, or whose opcode is neither TOPIC nor
\* SERVICE_RESPONSE, is dropped: no field and no promise changes, nothing is
\* invoked, nothing is sent and nothing is thrown.
C6_BinaryFrameDropped ==
  (last.ev = "binary"
     /\ (Len(last.input) < 5 \/ last.input[1] \notin {OP_TOPIC, OP_SERVICE_RESPONSE})) =>
        /\ NothingChanged
        /\ last.invoked = << >>
        /\ last.sent = << >>
        /\ ~last.threw

\* a 4-byte TOPIC frame arrived while a subscription was live and a call waiting
C6_Witness ==
  /\ last.ev = "binary"
  /\ Len(last.input) = 4 /\ last.input[1] = OP_TOPIC
  /\ subscriptions # EmptyMap
  /\ (pendingCreates # EmptyMap \/ serviceResponses # EmptyMap)

\* a text frame that parseTextPayload must refuse
Malformed(p) ==
  ~p.valid \/ p.t # "object" \/ p.id.t # "number" \/ p.call_id.t # "number"

\* C7: a text frame that is not JSON, not a JSON object, without a numeric id or
\* call_id, or whose call_id is not pending, is dropped: no field and no promise
\* changes, nothing is invoked or thrown; and every call still waiting keeps its
\* own resolver under its own call id, so its response can still resolve it.
C7_TextFrameDropped ==
  /\ (last.ev = "text"
        /\ (Malformed(last.input) \/ ~MapHas(Before.pendingCreates, last.input.call_id.v))) =>
           /\ NothingChanged
           /\ last.invoked = << >>
           /\ last.sent = << >>
           /\ ~last.threw
  /\ \A h \in Handles :
       calls[h].outcome.kind = "pending" =>
          IF IsCreate(h)
          THEN MapHas(pendingCreates, calls[h].call_id) /\ pendingCreates[calls[h].call_id] = h
          ELSE MapHas(serviceResponses, calls[h].call_id)
               /\ serviceResponses[calls[h].call_id] = h

\* a malformed text frame arrived while a creation and a service call were waiting
C7_Witness ==
  /\ last.ev = "text" /\ Malformed(last.input)
  /\ \E h \in Handles : IsCreate(h) /\ calls[h].outcome.kind = "pending"
  /\ \E h \in Handles : ~IsCreate(h) /\ calls[h].outcome.kind = "pending"

\* the last frame was a TOPIC frame of at least 5 bytes
IsTopicFrame ==
  last.ev = "binary" /\ Len(last.input) >= 5 /\ last.input[1] = OP_TOPIC

C9_DestroyRemovesCallbackFirst ==
  last.ev = "destroy" => ~MapHas(subscriptions, last.input[1])

\* C10: destroy leaves both pending tables and every promise as they were and
\* invokes no resolver or rejecter; a waiting service call resolves with the
\* message of the SERVICE_RESPONSE that carries its call id.
C10_DestroyKeepsPendingCalls ==
  /\ last.ev = "destroy" =>
       /\ pendingCreates = Before.pendingCreates
       /\ serviceResponses = Before.serviceResponses
       /\ calls = Before.calls
       /\ last.invoked = << >>
  /\ \A h \in Handles :
       (~IsCreate(h) /\ WasPending(h) /\ IsServiceResponseFor(calls[h].call_id)) =>
          calls[h].outcome = ResolvedMessage(SubSeq(last.input, 6, Len(last.input)))

\* the service client was destroyed while a service call against it and a
\* creation were waiting
C10_Witness ==
  /\ last.ev = "destroy" /\ last.input[1] \in ServiceClientIds /\ ~last.threw
  /\ \E h \in Handles : ~IsCreate(h) /\ calls[h].outcome.kind = "pending" /\ EntryPresent(h)
  /\ \E h \in Handles : IsCreate(h) /\ calls[h].outcome.kind = "pending" /\ EntryPresent(h)

\* the calls that took a call id from the counter
Issued == {h \in Handles : calls[h].call_id # NoCallId}

\* C11: one counter numbers the creations and the service calls alike.  Every
\* creation and every service call that takes an id takes the counter's value and
\* advances the counter by one, and nothing else moves the counter; so ids are
\* strictly increasing in issue order, the keys of the two pending tables are
\* disjoint, each key is the id of the one call registered under it, and every
\* key is smaller than the counter.
C11_SharedCallIdCounter ==
  /\ \A h \in Issued : ~Existed(h) =>
        calls[h].call_id = Before.nextCallId /\ nextCallId = Before.nextCallId + 1
  /\ (\A h \in Issued : Existed(h)) => nextCallId = Before.nextCallId
  /\ \A g, h \in Issued : g < h => calls[g].call_id < calls[h].call_id
  /\ (DOMAIN pendingCreates) \cap (DOMAIN serviceResponses) = {}
  /\ \A k \in DOMAIN pendingCreates :
        /\ k < nextCallId
        /\ pendingCreates[k] \in Issued
        /\ IsCreate(pendingCreates[k]) /\ calls[pendingCreates[k]].call_id = k
  /\ \A k \in DOMAIN serviceResponses :
        /\ k < nextCallId
        /\ serviceResponses[k] \in Issued
        /\ ~IsCreate(serviceResponses[k]) /\ calls[serviceResponses[k]].call_id = k

\* a service call was issued first and a creation after it, and both are waiting
C11_Witness ==
  /\ Len(calls) = 2 /\ ~IsCreate(1) /\ IsCreate(2)
  /\ pendingCreates # EmptyMap /\ serviceResponses # EmptyMap
  /\ calls[1].call_id + 1 = calls[2].call_id

\* the last handler was a callService that took call id c and whose send returned
SentServiceRequest(h) ==
  /\ last.ev = "call_service" /\ ~Existed(h) /\ h \in Issued
  /\ calls[h].outcome # Rejected(SendError)

\* C12: a callService that takes a call id hands the socket exactly one binary
\* frame: opcode SERVICE_REQUEST, the service-client id in bytes 1-4 and the
\* fresh call id in bytes 5-8, little-endian, then the request bytes, 9 + n in
\* all.  A service call that has just resolved was resolved by the
\* SERVICE_RESPONSE carrying its own call id and holds that frame's bytes from
\* offset 5; a response addressed to a waiting call resolves it; no binary frame
\* settles any other call.
C12_ConcurrentServiceCalls ==
  /\ \A h \in Handles :
       SentServiceRequest(h) =>
          /\ Len(last.sent) = 1
          /\ last.sent[1].kind = "binary"
          /\ LET bytes == last.sent[1].bytes
                 request == last.input[2]
             IN  /\ Len(bytes) = 9 + Len(request)
                 /\ bytes[1] = OP_SERVICE_REQUEST
                 /\ GetUint32LE(bytes, 1) = last.input[1]
                 /\ GetUint32LE(bytes, 5) = calls[h].call_id
                 /\ calls[h].call_id = Before.nextCallId
                 /\ SubSeq(bytes, 10, Len(bytes)) = request
  /\ last.ev = "call_service" => Len(last.sent) <= 1
  /\ \A h \in Handles :
       (~IsCreate(h) /\ JustResolved(h)) =>
          /\ IsServiceResponseFor(calls[h].call_id)
          /\ calls[h].outcome = ResolvedMessage(ViewFrom(last.input, 5))
  /\ \A h \in Handles :
       (~IsCreate(h) /\ WasPending(h) /\ IsServiceResponseFor(calls[h].call_id)) =>
          calls[h].outcome = ResolvedMessage(ViewFrom(last.input, 5))
  /\ last.ev = "binary" =>
       \A h \in Handles :
          (Existed(h) /\ ~(~IsCreate(h) /\ IsServiceResponseFor(calls[h].call_id))) =>
             calls[h].outcome = Before.calls[h].outcome

\* two calls of the same service client were waiting together; the second was
\* answered first, and the two got different payloads
C12_Witness ==
  /\ Len(calls) = 2 /\ ~IsCreate(1) /\ ~IsCreate(2)
  /\ last.ev = "binary" /\ WasPending(1) /\ JustResolved(1)
  /\ Before.calls[2].outcome.kind = "resolved"
  /\ calls[1].outcome.message # calls[2].outcome.message

\* the last handler was the firing of call h's own signal
IsAbortOf(h) ==
  last.ev = "abort" /\ calls[h].signal # NoSignal /\ last.input[1] = calls[h].signal

\* the last handler received the response that carries call h's call id
IsResponseFor(h) ==
  IF IsCreate(h) THEN IsCreateResponseFor(calls[h].call_id)
                 ELSE IsServiceResponseFor(calls[h].call_id)

\* C13: nothing but its own response or its own signal ends a call.  An entry
\* that was in a pending table when a handler started and is gone when it ends
\* was removed by the response with its call id or by its signal firing; a call
\* that was waiting and is settled was settled by one of the two; every other
\* handler (create*, callService, publish, destroy, frames for other calls,
\* other signals) leaves the entry and the promise as they were.
C13_NoTimeout ==
  \A h \in Handles :
     Existed(h) =>
        /\ (HadEntry(h) /\ ~EntryPresent(h)) => (IsResponseFor(h) \/ IsAbortOf(h))
        /\ (WasPending(h) /\ calls[h].outcome.kind # "pending") =>
              (IsResponseFor(h) \/ IsAbortOf(h))
        /\ (HadEntry(h) /\ ~IsResponseFor(h) /\ ~IsAbortOf(h)) =>
              /\ EntryPresent(h)
              /\ calls[h].outcome = Before.calls[h].outcome

\* a service call is still waiting after the response to a later call has
\* arrived and resolved that call
C13_Witness ==
  /\ Len(calls) = 2 /\ ~IsCreate(1) /\ ~IsCreate(2)
  /\ last.ev = "binary" /\ WasPending(2) /\ JustResolved(2)
  /\ calls[1].outcome.kind = "pending" /\ EntryPresent(1)

\* C14: publish hands the socket exactly one binary frame of 5 + n bytes: the
\* TOPIC opcode, the publisher id in bytes 1-4 little-endian, then the n message
\* bytes unchanged.  It returns (or throws, when the send throws) in the same
\* step: it creates no promise, registers nothing, takes no call id, changes no
\* table and invokes nothing.
C14_PublishFireAndForget ==
  last.ev = "publish" =>
     /\ NothingChanged
     /\ last.invoked = << >>
     /\ last.threw => last.sent = << >>
     /\ ~last.threw =>
           /\ Len(last.sent) = 1
           /\ last.sent[1].kind = "binary"
           /\ LET bytes == last.sent[1].bytes
                  message == last.input[2]
              IN  /\ Len(bytes) = 5 + Len(message)
                  /\ bytes[1] = OP_TOPIC
                  /\ GetUint32LE(bytes, 1) = last.input[1]
                  /\ SubSeq(bytes, 6, Len(bytes)) = message

\* a non-empty message was published under a two-byte id while a subscription
\* was live and a service call waiting
C14_Witness ==
  /\ last.ev = "publish" /\ ~last.threw
  /\ last.input[1] > 255 /\ Len(last.input[2]) > 0
  /\ subscriptions # EmptyMap /\ serviceResponses # EmptyMap

(***************************************************************************)
(* Part 2: the codec (packages/ros-cdr-serialization).  A schema is a tree *)
(* of RosPrimitiveSchema, RosArraySchema and RosMessageSchema nodes; write *)
(* and read walk it against a CdrWriter and a CdrReader.  The writer is    *)
(* the bytes written so far (its offset is their number); the reader is    *)
(* the buffer and a 0-based offset.  Strings are sequences of 7-bit        *)
(* character codes, floating-point numbers are named by their decimal      *)
(* spelling, and a message value is a record of its fields.                *)
(***************************************************************************)

\* ----------------------------------------------------------------- schemas
RosPrimitiveTypes ==
  {"bool", "byte", "char", "float32", "float64", "int8", "uint8", "int16", "uint16",
   "int32", "uint32", "int64", "uint64", "string", "wstring"}

\* #length of a sequence (length?: number left undefined)
NoLength == 0 - 1

Primitive(type) == [kind |-> "primitive", type |-> type]
Array(item, length) == [kind |-> "array", schema |-> item, length |-> length]
\* shape: the sequence Object.entries(#shape) yields, <<key, schema>> pairs
Message(shape) == [kind |-> "message", shape |-> shape]

\* ---------------------------------------------------------- number formats
\* the bytes DataView.setInt*/setUint*/setBigInt64(…, true) stores: size bytes,
\* least significant first, two's complement
RECURSIVE LEBytes(_, _)
LEBytes(n, size) ==
  IF size = 0 THEN << >> ELSE <<n % 256>> \o LEBytes(n \div 256, size - 1)

\* DataView.getUint*/getBigUint64(…, true)
RECURSIVE UnsignedLE(_)
UnsignedLE(bytes) ==
  IF bytes = << >> THEN 0 ELSE Head(bytes) + 256 * UnsignedLE(Tail(bytes))

\* DataView.getInt*/getBigInt64(…, true)
RECURSIVE SignedLE(_)
SignedLE(bytes) ==
  IF Len(bytes) = 1
  THEN IF bytes[1] >= 128 THEN bytes[1] - 256 ELSE bytes[1]
  ELSE Head(bytes) + 256 * SignedLE(Tail(bytes))

\* IEEE 754 binary64 / binary32, least significant byte first
Floats == {"0", "0.5", "-0.5", "1"}
Float64Bytes(x) ==
  CASE x = "0" -> <<0, 0, 0, 0, 0, 0, 0, 0>>
    [] x = "0.5" -> <<0, 0, 0, 0, 0, 0, 224, 63>>
    [] x = "-0.5" -> <<0, 0, 0, 0, 0, 0, 224, 191>>
    [] x = "1" -> <<0, 0, 0, 0, 0, 0, 240, 63>>
Float32Bytes(x) ==
  CASE x = "0" -> <<0, 0, 0, 0>>
    [] x = "0.5" -> <<0, 0, 0, 63>>
    [] x = "-0.5" -> <<0, 0, 0, 191>>
    [] x = "1" -> <<0, 0, 128, 63>>
\* a number the model has no name for
OtherFloat == "other"
Float64Of(bytes) ==
  IF \E x \in Floats : Float64Bytes(x) = bytes
  THEN CHOOSE x \in Floats : Float64Bytes(x) = bytes ELSE OtherFloat
Float32Of(bytes) ==
  IF \E x \in Floats : Float32Bytes(x) = bytes
  THEN CHOOSE x \in Floats : Float32Bytes(x) = bytes ELSE OtherFloat

\* --------------------------------------------------------------- CdrWriter
\* new CdrWriter(): the encapsulation header, plain CDR little-endian
CdrHeader == <<0, 1, 0, 0>>
\* the offset alignment is counted from
Origin == Len(CdrHeader)

Zeros(n) == [i \in 1..n |-> 0]
\* an align that counts the offset from the first byte of the payload
PaddingFromPayloadStart(offset, size) == (size - (offset % size)) % size

\* the padding align(size) inserts at offset
Padding(offset, size) == (size - ((offset - Origin) % size)) % size

WriterAlign(data, size) == data \o Zeros(Padding(Len(data), size))
\* writer.uint8/int8/uint16/int16/uint32/int32/uint64/int64(n)
WriterInt(data, size, n) == WriterAlign(data, size) \o LEBytes(n, size)
WriterFloat32(data, x) == WriterAlign(data, 4) \o Float32Bytes(x)
WriterFloat64(data, x) == WriterAlign(data, 8) \o Float64Bytes(x)
\* a string whose count leaves the terminator out
WriterStringCountsCharacters(data, s) == WriterInt(data, 4, Len(s)) \o s \o <<0>>

\* writer.string(s): uint32 length with the terminator, the characters, a zero
WriterString(data, s) == WriterInt(data, 4, Len(s) + 1) \o s \o <<0>>
\* writer.sequenceLength(n)
WriterSequenceLength(data, n) == WriterInt(data, 4, n)

\* --------------------------------------------------------------- CdrReader
ReadOk(v, offset) == [ok |-> TRUE, value |-> v, offset |-> offset]
\* a read past the end of the buffer throws
ReadFailed == [ok |-> FALSE, value |-> << >>, offset |-> 0]

\* the size bytes at the next offset aligned to size
ReaderBytes(buffer, offset, size) ==
  LET at == offset + Padding(offset, size)
  IN  IF at + size > Len(buffer) THEN ReadFailed
      ELSE ReadOk(SubSeq(buffer, at + 1, at + size), at + size)

ReaderUnsigned(buffer, offset, size) ==
  LET r == ReaderBytes(buffer, offset, size)
  IN  IF r.ok THEN ReadOk(UnsignedLE(r.value), r.offset) ELSE ReadFailed
ReaderSigned(buffer, offset, size) ==
  LET r == ReaderBytes(buffer, offset, size)
  IN  IF r.ok THEN ReadOk(SignedLE(r.value), r.offset) ELSE ReadFailed
ReaderFloat32(buffer, offset) ==
  LET r == ReaderBytes(buffer, offset, 4)
  IN  IF r.ok THEN ReadOk(Float32Of(r.value), r.offset) ELSE ReadFailed
ReaderFloat64(buffer, offset) ==
  LET r == ReaderBytes(buffer, offset, 8)
  IN  IF r.ok THEN ReadOk(Float64Of(r.value), r.offset) ELSE ReadFailed
\* reader.string(): the length, then length - 1 characters; the last byte is
\* stepped over without being looked at
ReaderString(buffer, offset) ==
  LET n == ReaderUnsigned(buffer, offset, 4)
  IN  IF ~n.ok THEN ReadFailed
      ELSE IF n.value <= 1 THEN ReadOk(<< >>, n.offset + n.value)
      ELSE IF n.offset + n.value - 1 > Len(buffer) THEN ReadFailed
      ELSE ReadOk(SubSeq(buffer, n.offset + 1, n.offset + n.value - 1), n.offset + n.value)
\* reader.sequenceLength()
ReaderSequenceLength(buffer, offset) == ReaderUnsigned(buffer, offset, 4)

\* ------------------------------------------------------ RosPrimitiveSchema
\* what a function returns when it ends without a return statement
Undefined == "undefined"

\* write: the switch over #type; it has no default, an unknown #type writes
\* nothing
PrimitiveWrite(type, data, input) ==
  CASE type = "bool" -> WriterInt(data, 1, IF input THEN 1 ELSE 0)
    [] type \in {"byte", "char", "uint8", "int8"} -> WriterInt(data, 1, input)
    [] type \in {"int16", "uint16"} -> WriterInt(data, 2, input)
    [] type \in {"int32", "uint32"} -> WriterInt(data, 4, input)
    [] type \in {"int64", "uint64"} -> WriterInt(data, 8, input)
    [] type = "float32" -> WriterFloat32(data, input)
    [] type = "float64" -> WriterFloat64(data, input)
    [] type \in {"string", "wstring"} -> WriterString(data, input)
    [] OTHER -> data

\* a read that takes int16 with the unsigned getter
PrimitiveReadInt16Unsigned(type, buffer, offset) ==
  CASE type = "bool" ->
         LET r == ReaderUnsigned(buffer, offset, 1)
         IN  IF r.ok THEN ReadOk(r.value # 0, r.offset) ELSE ReadFailed
    [] type \in {"byte", "char", "uint8"} -> ReaderUnsigned(buffer, offset, 1)
    [] type = "int8" -> ReaderSigned(buffer, offset, 1)
    [] type \in {"int16", "uint16"} -> ReaderUnsigned(buffer, offset, 2)
    [] type = "int32" -> ReaderSigned(buffer, offset, 4)
    [] type = "uint32" -> ReaderUnsigned(buffer, offset, 4)
    [] type = "int64" -> ReaderSigned(buffer, offset, 8)
    [] type = "uint64" -> ReaderUnsigned(buffer, offset, 8)
    [] type = "float32" -> ReaderFloat32(buffer, offset)
    [] type = "float64" -> ReaderFloat64(buffer, offset)
    [] type \in {"string", "wstring"} -> ReaderString(buffer, offset)
    [] OTHER -> ReadOk(Undefined, offset)

\* read: the switch over #type; it has no default, an unknown #type ends the
\* function without a return
PrimitiveRead(type, buffer, offset) ==
  CASE type = "bool" ->
         LET r == ReaderUnsigned(buffer, offset, 1)
         IN  IF r.ok THEN ReadOk(r.value # 0, r.offset) ELSE ReadFailed
    [] type \in {"byte", "char", "uint8"} -> ReaderUnsigned(buffer, offset, 1)
    [] type = "int8" -> ReaderSigned(buffer, offset, 1)
    [] type = "int16" -> ReaderSigned(buffer, offset, 2)
    [] type = "uint16" -> ReaderUnsigned(buffer, offset, 2)
    [] type = "int32" -> ReaderSigned(buffer, offset, 4)
    [] type = "uint32" -> ReaderUnsigned(buffer, offset, 4)
    [] type = "int64" -> ReaderSigned(buffer, offset, 8)
    [] type = "uint64" -> ReaderUnsigned(buffer, offset, 8)
    [] type = "float32" -> ReaderFloat32(buffer, offset)
    [] type = "float64" -> ReaderFloat64(buffer, offset)
    [] type \in {"string", "wstring"} -> ReaderString(buffer, offset)
    [] OTHER -> ReadOk(Undefined, offset)

\* ------------------------------------------- RosArraySchema, RosMessageSchema
\* the outcome of a write: the writer's bytes, and whether the write threw
WriteOk(data) == [ok |-> TRUE, data |-> data]
WriteThrew(data) == [ok |-> FALSE, data |-> data]

\* output[key] = v
WithField(record, key, v) ==
  [k \in (DOMAIN record) \cup {key} |-> IF k = key THEN v ELSE record[k]]

RECURSIVE SchemaWrite(_, _, _), WriteItems(_, _, _, _), WriteEntries(_, _, _, _)

\* a write that does not compare the input's length with the declared one
ArrayWriteNoLengthCheck(s, data, input) ==
  IF s.length = NoLength
  THEN WriteItems(s.schema, WriterSequenceLength(data, Len(input)), input, 1)
  ELSE WriteItems(s.schema, data, input, 1)

\* RosArraySchema.write
ArrayWrite(s, data, input) ==
  IF s.length = NoLength
  THEN WriteItems(s.schema, WriterSequenceLength(data, Len(input)), input, 1)
  ELSE IF Len(input) # s.length THEN WriteThrew(data)
  ELSE WriteItems(s.schema, data, input, 1)

\* RosMessageSchema.write
MessageWrite(s, data, input) ==
  IF Len(s.shape) = 0 THEN WriteOk(WriterInt(data, 1, 0))
  ELSE WriteEntries(s.shape, data, input, 1)

\* RosSchema._write: the node's own write
SchemaWrite(s, data, input) ==
  CASE s.kind = "primitive" -> WriteOk(PrimitiveWrite(s.type, data, input))
    [] s.kind = "array" -> ArrayWrite(s, data, input)
    [] s.kind = "message" -> MessageWrite(s, data, input)

\* for (const item of input) this.#schema._write(writer, item)
WriteItems(item, data, input, i) ==
  IF i > Len(input) THEN WriteOk(data)
  ELSE LET w == SchemaWrite(item, data, input[i])
       IN  IF w.ok THEN WriteItems(item, w.data, input, i + 1) ELSE w

\* for (const [key, schema] of entries) schema._write(writer, input[key])
WriteEntries(shape, data, input, i) ==
  IF i > Len(shape) THEN WriteOk(data)
  ELSE LET w == SchemaWrite(shape[i][2], data, input[shape[i][1]])
       IN  IF w.ok THEN WriteEntries(shape, w.data, input, i + 1) ELSE w

RECURSIVE SchemaRead(_, _, _), ReadItems(_, _, _, _, _), ReadEntries(_, _, _, _, _)

\* a read that takes a count in front of a fixed-length array as well
ArrayReadCountsAlways(s, buffer, offset) ==
  LET n == ReaderSequenceLength(buffer, offset)
  IN  IF n.ok THEN ReadItems(s.schema, buffer, n.offset, n.value, << >>) ELSE ReadFailed

\* RosArraySchema.read
ArrayRead(s, buffer, offset) ==
  IF s.length = NoLength
  THEN LET n == ReaderSequenceLength(buffer, offset)
       IN  IF n.ok THEN ReadItems(s.schema, buffer, n.offset, n.value, << >>) ELSE ReadFailed
  ELSE ReadItems(s.schema, buffer, offset, s.length, << >>)

\* a read that takes no byte for a message without fields
MessageReadEmptyTakesNothing(s, buffer, offset) ==
  IF Len(s.shape) = 0 THEN ReadOk(<< >>, offset)
  ELSE ReadEntries(s.shape, buffer, offset, 1, << >>)

\* RosMessageSchema.read
MessageRead(s, buffer, offset) ==
  IF Len(s.shape) = 0
  THEN LET r == ReaderUnsigned(buffer, offset, 1)
       IN  IF r.ok THEN ReadOk(<< >>, r.offset) ELSE ReadFailed
  ELSE ReadEntries(s.shape, buffer, offset, 1, << >>)

\* RosSchema._read: the node's own read
SchemaRead(s, buffer, offset) ==
  CASE s.kind = "primitive" -> PrimitiveRead(s.type, buffer, offset)
    [] s.kind = "array" -> ArrayRead(s, buffer, offset)
    [] s.kind = "message" -> MessageRead(s, buffer, offset)

\* for (let i = 0; i < length; ++i) output.push(this.#schema._read(reader))
ReadItems(item, buffer, offset, length, out) ==
  IF Len(out) >= length THEN ReadOk(out, offset)
  ELSE LET r == SchemaRead(item, buffer, offset)
       IN  IF r.ok THEN ReadItems(item, buffer, r.offset, length, Append(out, r.value))
           ELSE ReadFailed

\* for (const [key, schema] of entries) output[key] = schema._read(reader)
ReadEntries(shape, buffer, offset, i, out) ==
  IF i > Len(shape) THEN ReadOk(out, offset)
  ELSE LET r == SchemaRead(shape[i][2], buffer, offset)
       IN  IF r.ok THEN ReadEntries(shape, buffer, r.offset, i + 1,
                                    WithField(out, shape[i][1], r.value))
           ELSE ReadFailed

\* ------------------------------------------------- serialize / deserialize
\* what a call returned: its result, or that it threw
Returned(v) == [threw |-> FALSE, result |-> v]
Threw == [threw |-> TRUE, result |-> << >>]

\* serialize(schema, value)
serialize(s, v) ==
  LET w == SchemaWrite(s, CdrHeader, v)
  IN  IF w.ok THEN Returned(w.data) ELSE Threw

\* a deserialize that takes the first field from the first byte of the payload
\* a deserialize that takes bytes left over after the top-level read as an error
deserializeWholeBuffer(s, bytes) ==
  IF Len(bytes) < Len(CdrHeader) THEN Threw
  ELSE LET r == SchemaRead(s, bytes, Len(CdrHeader))
       IN  IF r.ok /\ r.offset = Len(bytes) THEN Returned(r.value) ELSE Threw

deserializeFromByte0(s, bytes) ==
  IF Len(bytes) < Len(CdrHeader) THEN Threw
  ELSE LET r == SchemaRead(s, bytes, 0)
       IN  IF r.ok THEN Returned(r.value) ELSE Threw

\* deserialize(schema, payload), for a payload whose header says little-endian;
\* new CdrReader throws when the payload is shorter than the header
deserialize(s, bytes) ==
  IF Len(bytes) < Len(CdrHeader) THEN Threw
  ELSE LET r == SchemaRead(s, bytes, Len(CdrHeader))
       IN  IF r.ok THEN Returned(r.value) ELSE Threw

\* test schemas of index.test.ts
UInt32 == Message(<< <<"data", Primitive("uint32")>> >>)
StringMessage == Message(<< <<"data", Primitive("string")>> >>)
Quaternion ==
  Message(<< <<"x", Primitive("float64")>>, <<"y", Primitive("float64")>>,
             <<"z", Primitive("float64")>>, <<"w", Primitive("float64")>> >>)
Empty == Message(<< >>)
hello == <<104, 101, 108, 108, 111>>

\* -------------------------------------------------------------- the inputs
\* sample values of each primitive type, inside the type's range
PrimitiveValues(type) ==
  CASE type = "bool" -> BOOLEAN
    [] type \in {"byte", "char", "uint8"} -> {0, 200}
    [] type = "int8" -> {0 - 2, 100}
    [] type = "int16" -> {0 - 300, 258}
    [] type = "uint16" -> {258, 65535}
    [] type = "int32" -> {0 - 70000, 1234}
    [] type = "uint32" -> {1234, 16909060}
    [] type = "int64" -> {0 - 2, 16909060}
    [] type = "uint64" -> {0, 1234}
    [] type \in {"float32", "float64"} -> {"0.5", "1"}
    [] type \in {"string", "wstring"} -> {<< >>, hello}
    [] OTHER -> {200}

RECURSIVE Inputs(_), Records(_, _)
\* the values handed to serialize for a schema: right in every primitive, with
\* arrays of every length up to MaxSeqLen whatever length the schema fixes
Inputs(s) ==
  CASE s.kind = "primitive" -> PrimitiveValues(s.type)
    [] s.kind = "array" -> UNION {[1..n -> Inputs(s.schema)] : n \in 0..MaxSeqLen}
    [] s.kind = "message" -> Records(s.shape, 1)
Records(shape, i) ==
  IF i > Len(shape) THEN {<< >>}
  ELSE {WithField(r, shape[i][1], v) : r \in Records(shape, i + 1), v \in Inputs(shape[i][2])}

RECURSIVE Conforms(_, _)
\* the value has the length every fixed-length array of the schema declares
Conforms(s, v) ==
  CASE s.kind = "primitive" -> TRUE
    [] s.kind = "array" ->
         /\ s.length # NoLength => Len(v) = s.length
         /\ \A i \in 1..Len(v) : Conforms(s.schema, v[i])
    [] s.kind = "message" ->
         \A i \in 1..Len(s.shape) : Conforms(s.shape[i][2], v[s.shape[i][1]])

\* the lengths array(schema, length?) is given: none, or a positive integer
Lengths == {NoLength} \cup 1..MaxSeqLen

PrimitiveSchemas == {Primitive(t) : t \in RosPrimitiveTypes}
\* element schemas of the arrays: one type of each width, a string, a message
\* without fields
ItemSchemas ==
  {Primitive(t) : t \in {"uint8", "int16", "float64", "string"}} \cup {Empty}
ArraySchemas == {Array(i, l) : i \in ItemSchemas, l \in Lengths}
\* arrays of arrays, and arrays of messages that hold an array
NestedArraySchemas ==
  {Array(Array(Primitive("bool"), l), m) : l \in Lengths, m \in Lengths}
  \cup {Array(Message(<< <<"p", Primitive("uint8")>>, <<"q", Array(Primitive("int16"), l)>> >>),
              NoLength) : l \in Lengths}
\* messages as fields of messages
NestedMessageSchemas ==
  {Empty, Message(<< <<"p", Primitive("uint8")>>, <<"q", Primitive("float64")>> >>),
   Message(<< <<"p", Empty>>, <<"q", Primitive("int32")>> >>)}
  \cup {Message(<< <<"p", Primitive("bool")>>, <<"q", Array(Primitive("uint16"), l)>> >>) :
          l \in Lengths}

\* the message schemas handed to serialize and deserialize
Schemas ==
  {Empty, UInt32, StringMessage}
  \cup {Message(<< <<"a", p>>, <<"b", q>> >>) : p \in PrimitiveSchemas, q \in PrimitiveSchemas}
  \cup {Message(<< <<"a", f>> >>) : f \in ArraySchemas \cup NestedMessageSchemas}
  \cup {Message(<< <<"a", Primitive("uint8")>>, <<"b", f>>, <<"c", Primitive("uint8")>> >>) :
          f \in ArraySchemas \cup NestedMessageSchemas}
  \cup {Message(<< <<"a", Primitive("uint8")>>, <<"b", f>> >>) : f \in NestedArraySchemas}

\* the payloads of index.test.ts, as they arrive from elsewhere
RawPayloads ==
  {<<0, 1, 0, 0, 210, 4, 0, 0>>,
   <<0, 1, 0, 0, 6, 0, 0, 0, 104, 101, 108, 108, 111, 0>>,
   <<0, 1, 0, 0, 0>>}

\* ----------------------------------------------------------- constructors
\* what `new` gives: the schema node, or that the constructor threw
Constructed(s) == [threw |-> FALSE, schema |-> s]
ConstructorThrew == [threw |-> TRUE, schema |-> << >>]

\* new RosPrimitiveSchema(type): the constructor stores the tag as given
NewRosPrimitiveSchema(type) == Constructed(Primitive(type))

\* a JavaScript number as a fraction num/den, den > 0; `length` left out
Number(num, den) == [defined |-> TRUE, num |-> num, den |-> den]
NoArgument == [defined |-> FALSE, num |-> 0, den |-> 1]
IsInteger(x) == x.num % x.den = 0

NewRosArraySchemaAcceptsZero(item, length) ==
  IF length.defined /\ (~IsInteger(length) \/ length.num < 0) THEN ConstructorThrew
  ELSE Constructed(Array(item, IF length.defined THEN length.num \div length.den
                                                 ELSE NoLength))

\* new RosArraySchema(schema, length)
NewRosArraySchema(item, length) ==
  IF length.defined /\ (~IsInteger(length) \/ length.num <= 0) THEN ConstructorThrew
  ELSE Constructed(Array(item, IF length.defined THEN length.num \div length.den
                                                 ELSE NoLength))

\* the tags and lengths callers construct schema nodes with; "int128" is no
\* RosPrimitiveType
RequestedTypes == {"uint8", "float64", "int128"}
RequestedLengths ==
  {NoArgument} \cup {Number(n, d) : n \in (0 - 1)..MaxSeqLen, d \in {1, 2}}
Requests ==
  {[kind |-> "primitive", type |-> t, length |-> NoArgument] : t \in RequestedTypes}
  \cup {[kind |-> "array", type |-> "uint8", length |-> l] : l \in RequestedLengths}

\* ------------------------------------------------------- the codec's calls
\* a caller is about to serialize a value, or holds a payload it was sent
\* bytes that follow a payload in a buffer
TailBytes == {0, 1, 255}
Tails == UNION {[1..n -> TailBytes] : n \in 1..MaxTailLen}

\* received payloads are also read as {a: uint8[]} and {a: uint8[n]}
RawArraySchemas == {Message(<< <<"a", Array(Primitive("uint8"), l)>> >>) : l \in Lengths}

InitCodec ==
  /\ nextCallId = 0
  /\ pendingCreates = EmptyMap
  /\ subscriptions = EmptyMap
  /\ serviceResponses = EmptyMap
  /\ calls = << >>
  /\ aborted = {}
  /\ last = Did("new", << >>, << >>, << >>, FALSE)
  /\ other = NewSession(2)
  /\ theSchema \in Schemas \cup {Quaternion} \cup Requests
  /\ theOutput = << >>
  /\ \/ /\ theSchema \notin Requests
        /\ theValue \in IF theSchema = Quaternion
                        THEN {[x |-> "0", y |-> "0.5", z |-> "-0.5", w |-> "1"]}
                        ELSE Inputs(theSchema)
        /\ thePayload = << >>
        /\ step = "start"
     \/ /\ theSchema \in {Empty, UInt32, StringMessage} \cup RawArraySchemas
        /\ theValue = << >>
        /\ thePayload \in RawPayloads
        /\ step = "received"
     \/ /\ theSchema \in Requests
        /\ theValue = << >>
        /\ thePayload = << >>
        /\ step = "constructing"

\* a schema node is constructed and put in a message, first of two fields:
\* message('M', {a: new RosPrimitiveSchema(type), b: uint8()}) or
\* message('M', {a: array(uint8(), length), b: uint8()}); a value is then picked
\* for it
Construct ==
  /\ step = "constructing"
  /\ LET node == IF theSchema.kind = "primitive"
                 THEN NewRosPrimitiveSchema(theSchema.type)
                 ELSE NewRosArraySchema(Primitive(theSchema.type), theSchema.length)
         built == Message(<< <<"a", node.schema>>, <<"b", Primitive("uint8")>> >>)
     IN  IF node.threw
         THEN /\ step' = "rejected"
              /\ UNCHANGED <<theSchema, theValue>>
         ELSE /\ step' = "start"
              /\ theSchema' = built
              /\ theValue' \in Inputs(built)
  /\ UNCHANGED <<thePayload, theOutput>>
  /\ UNCHANGED sessionVars

\* payload = serialize(schema, value)
Serialize ==
  /\ step = "start"
  /\ LET r == serialize(theSchema, theValue)
     IN  /\ thePayload' = r.result
         /\ step' = IF r.threw THEN "threw" ELSE "serialized"
  /\ UNCHANGED <<theSchema, theValue, theOutput>>
  /\ UNCHANGED sessionVars

\* the payloads that reach deserialize cut short or followed by other bytes:
\* those of the messages with at most one field
Relayed(s) == Len(s.shape) <= 1

\* the buffer handed to deserialize holds only the first k bytes of a payload
Cut ==
  /\ step = "serialized"
  /\ Relayed(theSchema)
  /\ \E k \in 0..(Len(thePayload) - 1) : thePayload' = SubSeq(thePayload, 1, k)
  /\ step' = "cut"
  /\ UNCHANGED <<theSchema, theValue, theOutput>>
  /\ UNCHANGED sessionVars

\* the buffer handed to deserialize holds a payload and more bytes after it
Extend ==
  /\ step = "serialized"
  /\ Relayed(theSchema)
  /\ \E t \in Tails : thePayload' = thePayload \o t
  /\ step' = "extended"
  /\ UNCHANGED <<theSchema, theValue, theOutput>>
  /\ UNCHANGED sessionVars

\* output = deserialize(schema, payload)
Deserialize ==
  /\ step \in {"serialized", "received", "cut", "extended"}
  /\ theOutput' = deserialize(theSchema, thePayload)
  /\ step' = CASE step = "serialized" -> "deserialized"
              [] step = "received" -> "decoded"
              [] step = "cut" -> "cutDecoded"
              [] step = "extended" -> "extendedDecoded"
  /\ UNCHANGED <<theSchema, theValue, thePayload>>
  /\ UNCHANGED sessionVars

NextCodec == Construct \/ Serialize \/ Cut \/ Extend \/ Deserialize

SpecCodec == InitCodec /\ [][NextCodec]_vars

\* ============================================================ codec claims
RECURSIVE Recognized(_)
\* every primitive node of the schema carries one of the RosPrimitiveTypes
Recognized(s) ==
  CASE s.kind = "primitive" -> s.type \in RosPrimitiveTypes
    [] s.kind = "array" -> Recognized(s.schema)
    [] s.kind = "message" -> \A i \in 1..Len(s.shape) : Recognized(s.shape[i][2])

\* C15: for every message schema built from primitives, sequences, fixed
\* arrays and nested messages and every value that conforms to it (each number
\* inside its type's range, each fixed array of its declared length), serialize
\* returns a payload and deserialize of that payload returns a value equal to
\* the one serialized.
C15_RoundTrip ==
  /\ step = "threw" => ~Conforms(theSchema, theValue)
  /\ step \in {"serialized", "deserialized"} => Conforms(theSchema, theValue)
  /\ (step = "deserialized" /\ Recognized(theSchema)) => theOutput = Returned(theValue)

\* a sequence of messages, each holding a negative int16 behind padding, made
\* the round trip behind another field
C15_Witness ==
  /\ step = "deserialized"
  /\ Len(theSchema.shape) = 2
  /\ theSchema.shape[2][2] \in NestedArraySchemas
  /\ theSchema.shape[2][2].schema.kind = "message"
  /\ Len(theValue.b) = 2
  /\ Len(theValue.b[2].q) = 2 /\ theValue.b[2].q[2] < 0

\* the bytes a fixed-width primitive occupies, and what they hold
Width(type) ==
  CASE type \in {"bool", "byte", "char", "uint8", "int8"} -> 1
    [] type \in {"int16", "uint16"} -> 2
    [] type \in {"int32", "uint32", "float32"} -> 4
    [] type \in {"int64", "uint64", "float64"} -> 8
Encoded(type, v) ==
  CASE type = "bool" -> <<IF v THEN 1 ELSE 0>>
    [] type = "float32" -> Float32Bytes(v)
    [] type = "float64" -> Float64Bytes(v)
    [] OTHER -> LEBytes(v, Width(type))

\* a message whose fields are all fixed-width primitives
IsFlat(s) ==
  /\ Len(s.shape) > 0
  /\ \A i \in 1..Len(s.shape) :
        /\ s.shape[i][2].kind = "primitive"
        /\ s.shape[i][2].type \in RosPrimitiveTypes \ {"string", "wstring"}

\* where field i starts and ends when every field of width W goes to the next
\* offset that is a multiple of W counted from byte `from` of the payload
RECURSIVE FieldStart(_, _, _), FieldEnd(_, _, _)
FieldEnd(shape, i, from) ==
  IF i = 0 THEN Len(CdrHeader)
  ELSE FieldStart(shape, i, from) + Width(shape[i][2].type)
FieldStart(shape, i, from) ==
  LET end == FieldEnd(shape, i - 1, from)
      w == Width(shape[i][2].type)
  IN  end + ((w - ((end - from) % w)) % w)

\* the payload of a flat message holds each field at the offset so computed,
\* zero bytes in the gaps, and nothing else
AlignedFrom(from) ==
  (step = "serialized" /\ IsFlat(theSchema)) =>
     LET shape == theSchema.shape
     IN  /\ Len(thePayload) = FieldEnd(shape, Len(shape), from)
         /\ \A i \in 1..Len(shape) :
               /\ SubSeq(thePayload, FieldStart(shape, i, from) + 1, FieldEnd(shape, i, from))
                    = Encoded(shape[i][2].type, theValue[shape[i][1]])
               /\ \A j \in (FieldEnd(shape, i - 1, from) + 1)..FieldStart(shape, i, from) :
                     thePayload[j] = 0

\* C16 as stated: offsets are counted from byte 0 of the payload, header
\* included, so that an 8-byte field lies at a multiple of 8 from the start of
\* the payload.
C16_AlignedFromPayloadStart == AlignedFrom(0)

\* C16 amended: offsets are counted from the first byte after the 4-byte
\* header: a primitive of width W in {2,4,8} is written at the next offset o
\* with o - 4 a multiple of W, behind zero padding; 1-byte values take no
\* padding; an 8-byte field lies at 4 plus a multiple of 8.
C16_AlignedFromHeaderEnd == AlignedFrom(Len(CdrHeader))

\* a float64 was written behind one byte: seven bytes of padding, the field at
\* offset 12
C16_Witness ==
  /\ step = "serialized"
  /\ theSchema = Message(<< <<"a", Primitive("uint8")>>, <<"b", Primitive("float64")>> >>)
  /\ SubSeq(thePayload, 6, 12) = Zeros(7)
  /\ Len(thePayload) = 20

\* the one field of a message schema with one field
OnlyField(s) == s.shape[1][2]
HasOneField(s) == s.kind = "message" /\ Len(s.shape) = 1

\* C17: every payload serialize returns begins with the bytes 00 01 00 00 and
\* the first field follows at offset 4; deserialize starts the first field at
\* offset 4, so that 00 01 00 00 D2 04 00 00 under {data: uint32} is
\* {data: 1234}; a message that is a field writes what it writes at top level
\* less the header, and the elements of an array follow one another (after the
\* count of a sequence) with no header of their own.
C17_HeaderOnlyAtTopLevel ==
  /\ step \in {"serialized", "deserialized"} =>
        /\ Len(thePayload) > 4
        /\ SubSeq(thePayload, 1, 4) = <<0, 1, 0, 0>>
        /\ IsFlat(theSchema) =>
              SubSeq(thePayload, 5, 4 + Width(theSchema.shape[1][2].type))
                = Encoded(theSchema.shape[1][2].type, theValue[theSchema.shape[1][1]])
  /\ (step = "decoded" /\ theSchema = UInt32 /\ thePayload = <<0, 1, 0, 0, 210, 4, 0, 0>>) =>
        theOutput = Returned([data |-> 1234])
  /\ (step = "serialized" /\ HasOneField(theSchema)
        /\ OnlyField(theSchema).kind = "message") =>
        thePayload = serialize(OnlyField(theSchema), theValue.a).result
  /\ (step = "serialized" /\ HasOneField(theSchema)
        /\ OnlyField(theSchema).kind = "array"
        /\ OnlyField(theSchema).schema \in {Empty, Primitive("uint8")}) =>
        thePayload =
          <<0, 1, 0, 0>>
          \o (IF OnlyField(theSchema).length = NoLength
              THEN <<Len(theValue.a), 0, 0, 0>> ELSE << >>)
          \o [i \in 1..Len(theValue.a) |->
                IF OnlyField(theSchema).schema = Empty THEN 0 ELSE theValue.a[i]]

\* the payload of the UInt32 test was decoded
C17_Witness ==
  /\ step = "decoded" /\ theSchema = UInt32
  /\ thePayload = <<0, 1, 0, 0, 210, 4, 0, 0>>
  /\ ~theOutput.threw /\ theOutput.result.data = 1234

\* C18: when the value holds, anywhere, an array whose length differs from the
\* fixed length its schema declares, serialize throws and the caller gets no
\* bytes: it never returns a payload for such a value, whether the array is a
\* top-level field, follows other fields, or sits inside a sequence or a nested
\* message.
C18_FixedLengthMismatch ==
  (step \in {"threw", "serialized", "deserialized"} /\ ~Conforms(theSchema, theValue)) =>
     /\ step = "threw"
     /\ thePayload = << >>

\* behind a uint8 field, the second message of a sequence held a fixed array
\* of the wrong length, the first one of the right length
C18_Witness ==
  /\ step = "threw"
  /\ Len(theSchema.shape) = 2
  /\ theSchema.shape[2][2] \in NestedArraySchemas
  /\ theSchema.shape[2][2].schema.kind = "message"
  /\ theSchema.shape[2][2].schema.shape[2][2].length # NoLength
  /\ Len(theValue.b) = 2
  /\ Len(theValue.b[1].q) = theSchema.shape[2][2].schema.shape[2][2].length
  /\ Len(theValue.b[2].q) # theSchema.shape[2][2].schema.shape[2][2].length

\* a uint8, an array of field-less messages, a uint8
HoldsEmptyMessages(s) ==
  /\ s.kind = "message" /\ Len(s.shape) = 3
  /\ s.shape[2][2].kind = "array" /\ s.shape[2][2].schema = Empty

\* C19: a message schema without fields writes exactly one zero byte and reads
\* exactly one byte.  At top level the empty record serializes to
\* 00 01 00 00 00 and those bytes deserialize to the empty record; as a field
\* or an array element each empty message is one zero byte in the payload, and
\* the field behind it is read back from the byte after it.
C19_EmptyMessageOneByte ==
  /\ (theSchema = Empty /\ step \in {"serialized", "deserialized"}) =>
        thePayload = <<0, 1, 0, 0, 0>>
  /\ (theSchema = Empty /\ step \in {"deserialized", "decoded"}
        /\ thePayload = <<0, 1, 0, 0, 0>>) =>
        theOutput = Returned(<< >>)
  /\ (step = "deserialized" /\ HoldsEmptyMessages(theSchema)) =>
        /\ thePayload =
             <<0, 1, 0, 0, theValue.a>>
             \o (IF theSchema.shape[2][2].length = NoLength
                 THEN <<0, 0, 0, Len(theValue.b), 0, 0, 0>> ELSE << >>)
             \o Zeros(Len(theValue.b))
             \o <<theValue.c>>
        /\ theOutput.result.b = [i \in 1..Len(theValue.b) |-> << >>]
        /\ theOutput.result.c = theValue.c
  /\ (step = "deserialized"
        /\ theSchema = Message(<< <<"a", Message(<< <<"p", Empty>>,
                                                   <<"q", Primitive("int32")>> >>)>> >>)) =>
        /\ thePayload = <<0, 1, 0, 0, 0, 0, 0, 0>> \o LEBytes(theValue.a.q, 4)
        /\ theOutput.result.a.q = theValue.a.q

\* two field-less messages in a sequence, a non-zero uint8 behind them, made
\* the round trip
C19_Witness ==
  /\ step = "deserialized" /\ HoldsEmptyMessages(theSchema)
  /\ theSchema.shape[2][2].length = NoLength
  /\ Len(theValue.b) = 2 /\ theValue.c = 200

\* a fixed-width primitive followed by a string or a wstring
EndsWithString(s) ==
  /\ s.kind = "message" /\ Len(s.shape) = 2
  /\ s.shape[1][2].kind = "primitive"
  /\ s.shape[1][2].type \in RosPrimitiveTypes \ {"string", "wstring"}
  /\ s.shape[2][2].kind = "primitive" /\ s.shape[2][2].type \in {"string", "wstring"}

\* C20: a string and a wstring are written alike: zero bytes up to the next
\* offset that is a multiple of 4, the number of characters plus one as a
\* little-endian uint32, the characters, a zero byte.  {data: "hello"} is
\* 00 01 00 00 06 00 00 00 68 65 6C 6C 6F 00, and those bytes are read back as
\* {data: "hello"}.
C20_StringEncoding ==
  /\ (step = "serialized" /\ EndsWithString(theSchema)) =>
        LET w == Width(theSchema.shape[1][2].type)
            pad == (4 - (w % 4)) % 4
        IN  thePayload =
              <<0, 1, 0, 0>> \o Encoded(theSchema.shape[1][2].type, theValue.a) \o Zeros(pad)
              \o <<Len(theValue.b) + 1, 0, 0, 0>> \o theValue.b \o <<0>>
  /\ (step \in {"serialized", "deserialized"} /\ theSchema = StringMessage
        /\ theValue = [data |-> <<104, 101, 108, 108, 111>>]) =>
        thePayload = <<0, 1, 0, 0, 6, 0, 0, 0, 104, 101, 108, 108, 111, 0>>
  /\ (step \in {"deserialized", "decoded"} /\ theSchema = StringMessage
        /\ thePayload = <<0, 1, 0, 0, 6, 0, 0, 0, 104, 101, 108, 108, 111, 0>>) =>
        theOutput = Returned([data |-> <<104, 101, 108, 108, 111>>])

\* the payload of the String test was decoded
C20_Witness ==
  /\ step = "decoded" /\ theSchema = StringMessage
  /\ thePayload = <<0, 1, 0, 0, 6, 0, 0, 0, 104, 101, 108, 108, 111, 0>>
  /\ ~theOutput.threw /\ Len(theOutput.result.data) = 5

\* the schema a caller holds once construction has returned
SchemaExists == step \notin {"idle", "constructing", "rejected"}

\* C21: no schema holds a primitive node whose tag is not a RosPrimitiveType
\* (its construction fails), so every field of a value is written by serialize
\* and no field of a deserialized record is undefined.
C21_UnknownTagRejected ==
  /\ SchemaExists => Recognized(theSchema)
  /\ (step = "deserialized" /\ ~theOutput.threw) =>
        \A k \in DOMAIN theOutput.result : theOutput.result[k] # Undefined

\* the array schema asked for has a length that is no positive integer
BadLength(request) ==
  /\ request.kind = "array"
  /\ request.length.defined
  /\ ~IsInteger(request.length) \/ request.length.num <= 0

RECURSIVE FixedLengthsPositive(_)
\* every array node of the schema is a sequence or has a fixed length >= 1
FixedLengthsPositive(s) ==
  CASE s.kind = "primitive" -> TRUE
    [] s.kind = "array" -> (s.length = NoLength \/ s.length >= 1) /\ FixedLengthsPositive(s.schema)
    [] s.kind = "message" -> \A i \in 1..Len(s.shape) : FixedLengthsPositive(s.shape[i][2])

\* C24: constructing an array schema fails exactly when a length is given that
\* is 0, negative or no integer; otherwise the schema is a sequence (no length
\* given) or has the given length, which is then >= 1.
C24_ArrayLengthValidated ==
  [][step = "constructing" =>
       /\ (step' = "rejected") <=> BadLength(theSchema)
       /\ step' # "rejected" => FixedLengthsPositive(theSchema')
       /\ (step' # "rejected" /\ theSchema.kind = "array") =>
            theSchema'.shape[1][2].length =
              IF theSchema.length.defined THEN theSchema.length.num \div theSchema.length.den
                                          ELSE NoLength]_vars

C24_Witness ==
  /\ step = "rejected"
  /\ theSchema.kind = "array"
  /\ theSchema.length.num = 0

\* the next offset at or after o that is a multiple of w from the header's end
AlignUp(o, w) == o + ((w - ((o - Len(CdrHeader)) % w)) % w)

\* where element i of an array of width-w elements ends, the array's first
\* byte being due at offset `first`
RECURSIVE ItemEnd(_, _, _)
ItemEnd(w, i, first) ==
  IF i = 0 THEN first ELSE AlignUp(ItemEnd(w, i - 1, first), w) + w

\* {a: uint8, b: T[] or T[n], c: uint8} with T a fixed-width primitive
IsArrayBetweenBytes(s) ==
  /\ Len(s.shape) = 3
  /\ s.shape[2][2].kind = "array"
  /\ s.shape[2][2].schema.kind = "primitive"
  /\ s.shape[2][2].schema.type \in RosPrimitiveTypes \ {"string", "wstring"}

\* C22: a sequence is written as a uint32 count at the next 4-byte boundary,
\* then its elements in order, each aligned on its own; a fixed-length array is
\* written as its elements alone; a fixed-length array is read as exactly the
\* declared number of elements and no count, a sequence as a count and that
\* many elements.
C22_SequenceAndFixedArray ==
  /\ (step = "serialized" /\ IsArrayBetweenBytes(theSchema)) =>
       LET arr == theSchema.shape[2][2]
           t == arr.schema.type
           w == Width(t)
           items == theValue.b
           countAt == AlignUp(Len(CdrHeader) + 1, 4)
           first == IF arr.length = NoLength THEN countAt + 4 ELSE Len(CdrHeader) + 1
           ItemAt(i) == AlignUp(ItemEnd(w, i - 1, first), w)
       IN  /\ thePayload[Len(CdrHeader) + 1] = theValue.a
           /\ arr.length = NoLength =>
                /\ SubSeq(thePayload, countAt + 1, countAt + 4) = LEBytes(Len(items), 4)
                /\ \A j \in (Len(CdrHeader) + 2)..countAt : thePayload[j] = 0
           /\ \A i \in 1..Len(items) :
                /\ SubSeq(thePayload, ItemAt(i) + 1, ItemAt(i) + w) = Encoded(t, items[i])
                /\ \A j \in (ItemEnd(w, i - 1, first) + 1)..ItemAt(i) : thePayload[j] = 0
           /\ Len(thePayload) = ItemEnd(w, Len(items), first) + 1
           /\ thePayload[Len(thePayload)] = theValue.c
  /\ (step = "decoded" /\ theSchema \in RawArraySchemas) =>
       LET n == OnlyField(theSchema).length
           body == SubSeq(thePayload, Len(CdrHeader) + 1, Len(thePayload))
           count == UnsignedLE(SubSeq(body, 1, 4))
       IN  IF n # NoLength
           THEN theOutput = IF Len(body) >= n THEN Returned([a |-> SubSeq(body, 1, n)])
                            ELSE Threw
           ELSE theOutput = IF Len(body) >= 4 /\ Len(body) >= 4 + count
                            THEN Returned([a |-> SubSeq(body, 5, 4 + count)])
                            ELSE Threw

C22_Witness ==
  /\ step = "serialized"
  /\ IsArrayBetweenBytes(theSchema)
  /\ theSchema.shape[2][2].length = NoLength
  /\ theSchema.shape[2][2].schema.type = "float64"
  /\ Len(theValue.b) = 2

\* C23: deserialize throws, and returns nothing, for every buffer that holds
\* only a proper prefix of a payload serialize returned for the schema: the
\* read runs out of bytes in the header, in a primitive, in a string, in a
\* sequence, in a fixed array or at the byte of a message without fields.
C23_ShortBufferFails == step = "cutDecoded" => theOutput = Threw

\* C27: deserialize(schema, serialize(schema, v) followed by t) returns v for
\* every schema, conforming value v and non-empty byte string t.
C27_TrailingBytesIgnored == step = "extendedDecoded" => theOutput = Returned(theValue)

C27_Witness ==
  /\ step = "extendedDecoded"
  /\ theSchema = StringMessage
  /\ theValue.data = hello
  /\ Len(thePayload) = 14 + MaxTailLen

(***************************************************************************)
(* Session claims, continued.                                              *)
(***************************************************************************)
\* the subscription ids under which call h's callback is registered
EntriesOf(h) == {id \in DOMAIN subscriptions : subscriptions[id] = h}
\* the entries the last handler added or replaced
AddedEntries ==
  {id \in DOMAIN subscriptions :
     ~MapHas(Before.subscriptions, id) \/ Before.subscriptions[id] # subscriptions[id]}

\* C29: the callback of a createSubscription is in #subscriptions only once the
\* creation has resolved.  A creation that is waiting or was rejected (signal
\* fired, send failed) has no entry; an entry is added only by the handler of
\* the CreateResponse that resolves the waiting creation, under that response's
\* id; a callback is invoked only for a creation that had resolved before the
\* frame came; a CreateResponse for a creation already rejected adds nothing.
C29_CallbackAddedOnResolve ==
  /\ \A h \in Handles :
       (calls[h].op = "create_subscription" /\ calls[h].outcome.kind # "resolved") =>
          EntriesOf(h) = {}
  /\ \A id \in AddedEntries :
       LET h == subscriptions[id]
       IN  /\ IsCreateResponseFor(calls[h].call_id)
           /\ last.input.id = Num(id)
           /\ WasPending(h)
           /\ calls[h].outcome = ResolvedId(id)
  /\ \A i \in 1..Len(last.invoked) :
       last.invoked[i].fn = "callback" =>
          Before.calls[last.invoked[i].h].outcome.kind = "resolved"
  /\ \A h \in Handles :
       (/\ calls[h].op = "create_subscription"
        /\ Existed(h) /\ Before.calls[h].outcome.kind = "rejected"
        /\ IsCreateResponseFor(calls[h].call_id)) =>
          subscriptions = Before.subscriptions

\* the CreateResponse for a createSubscription whose send had failed came and
\* found its resolver still registered
C29_Witness ==
  \E h \in Handles :
     /\ calls[h].op = "create_subscription"
     /\ calls[h].outcome = Rejected(SendError)
     /\ IsCreateResponseFor(calls[h].call_id)
     /\ InvokedFor(h) # {}
     /\ EntriesOf(h) = {}

\* the last handler was a create*/callService given a signal that had fired
PreAborted(h) ==
  /\ ~Existed(h)
  /\ calls[h].signal # NoSignal
  /\ calls[h].signal \in aborted

\* C30: a create* or callService given a signal that has already fired rejects
\* with the signal's reason, sends nothing, registers nothing and adds no
\* listener; a create* has taken the counter's value and advanced the counter
\* by one all the same, a callService has taken no id and left the counter.
C30_PreAbortedSignal ==
  \A h \in Handles :
     PreAborted(h) =>
        /\ calls[h].outcome = Rejected(ReasonOf(calls[h].signal))
        /\ ~calls[h].listening
        /\ last.sent = << >> /\ last.invoked = << >> /\ ~last.threw
        /\ pendingCreates = Before.pendingCreates
        /\ serviceResponses = Before.serviceResponses
        /\ subscriptions = Before.subscriptions
        /\ IF IsCreate(h)
           THEN calls[h].call_id = Before.nextCallId /\ nextCallId = Before.nextCallId + 1
           ELSE calls[h].call_id = NoCallId /\ nextCallId = Before.nextCallId

\* a creation with a fired signal after a callService with the same signal:
\* the service call took no id, the creation took call id 0
C30_Witness ==
  /\ Len(calls) = 2
  /\ PreAborted(2) /\ IsCreate(2)
  /\ ~IsCreate(1) /\ calls[1].call_id = NoCallId
  /\ calls[2].call_id = 0 /\ nextCallId = 1
  /\ pendingCreates = EmptyMap /\ serviceResponses = EmptyMap

\* the last handler ran for an incoming frame
IsFrame == last.ev \in {"text", "binary"}

\* C25: each frame is handled by its own run of #onMessage, to the end, before
\* the next one, whatever its opcode and whatever is waiting.  A callback is
\* invoked only by the run for a TOPIC frame with its id, once, with that
\* frame's message; a TOPIC frame for a live subscription is delivered by its
\* own run even while creations and service calls are waiting; a resolver is
\* invoked only by the run for the response with its call id, and that run
\* invokes it and removes its entry.  So each callback sees the TOPIC frames
\* of its id in arrival order, and a response is resolved before any later
\* frame is looked at.
C25_FramesInReceiptOrder ==
  /\ IsFrame => Len(last.invoked) <= 1 /\ last.sent = << >>
  /\ ~IsFrame => \A i \in 1..Len(last.invoked) : last.invoked[i].fn = "reject"
  /\ \A i \in 1..Len(last.invoked) :
       LET inv == last.invoked[i]
       IN  /\ inv.fn = "callback" =>
                /\ IsTopicFrame
                /\ inv.id = GetUint32LE(last.input, 1)
                /\ inv.message = ViewFrom(last.input, 5)
                /\ MapHas(Before.subscriptions, inv.id)
                /\ inv.h = Before.subscriptions[inv.id]
           /\ inv.fn = "resolve" => IsResponseFor(inv.h) /\ HadEntry(inv.h)
  /\ (IsTopicFrame /\ MapHas(Before.subscriptions, GetUint32LE(last.input, 1))) =>
        Len(last.invoked) = 1 /\ last.invoked[1].fn = "callback"
  /\ \A h \in Handles :
       (Existed(h) /\ HadEntry(h) /\ IsResponseFor(h)) =>
          /\ InvokedFor(h) # {}
          /\ ~EntryPresent(h)

\* a TOPIC frame was delivered while a service call was waiting for its response
C25_Witness ==
  /\ IsTopicFrame
  /\ Len(last.invoked) = 1 /\ last.invoked[1].fn = "callback"
  /\ serviceResponses # EmptyMap

\* call h waits for its response; it has ended by its response or by its signal
Waiting(h) == h \in Handles /\ calls[h].outcome.kind = "pending"
Ended(h) ==
  /\ h \in Handles
  /\ \/ calls[h].outcome.kind = "resolved"
     \/ /\ calls[h].signal \in aborted
        /\ calls[h].outcome = Rejected(ReasonOf(calls[h].signal))

\* the step is the run of #onMessage for the CreateResponse {id, call_id} /
\* for the SERVICE_RESPONSE that carries call_id and the bytes m
ReceivesCreateResponse(id, c) ==
  last'.ev = "text" /\ last'.input = CreateResponseText(id, c)
ReceivesServiceResponse(c, m) ==
  last'.ev = "binary" /\ last'.input = ServiceResponsePayload(c, m)

\* C26: when the response to every registered call eventually arrives, every
\* creation and every service call that waits eventually resolves, unless its
\* signal fires first; and the run that receives the response to a waiting
\* call resolves it there and then, a creation with the id the CreateResponse
\* carries, a service call with the bytes of the SERVICE_RESPONSE.
C26_ResponseResolves ==
  /\ \A h \in 1..MaxCalls : Waiting(h) ~> Ended(h)
  /\ [][\A h \in Handles :
          Waiting(h) =>
             /\ \A id \in EndpointIds :
                  (IsCreate(h) /\ ReceivesCreateResponse(id, calls[h].call_id)) =>
                     calls'[h].outcome = ResolvedId(id)
             /\ \A m \in Payloads :
                  (~IsCreate(h) /\ ReceivesServiceResponse(calls[h].call_id, m)) =>
                     calls'[h].outcome = ResolvedMessage(m)]_vars

\* a creation and a service call were waiting together and both have resolved
C26_Witness ==
  /\ Len(calls) = 2
  /\ IsCreate(1) /\ ~IsCreate(2)
  /\ calls[1].outcome.kind = "resolved" /\ calls[2].outcome.kind = "resolved"
  /\ IsCreateResponseFor(calls[1].call_id)
  /\ Before.calls[2].outcome.kind = "resolved"

\* the fields of the client operated on, as a record like `other`
ThisSession ==
  [session |-> 3 - other.session, nextCallId |-> nextCallId,
   pendingCreates |-> pendingCreates, subscriptions |-> subscriptions,
   serviceResponses |-> serviceResponses, calls |-> calls]

\* the client has numbered its calls 0, 1, 2, ... in issue order and its
\* counter is the number of ids it has issued
NumbersItsOwnCalls(session) ==
  LET issued == {h \in DOMAIN session.calls : session.calls[h].call_id # NoCallId}
  IN  /\ session.nextCallId = Cardinality(issued)
      /\ \A h \in issued :
            session.calls[h].call_id = Cardinality({g \in issued : g < h})

\* C28: of two clients over two sockets, a method call or a frame on one
\* leaves the other's #pendingCreates, #serviceResponses, #subscriptions and
\* #nextCallId (and its promises) as they were, and each client numbers its
\* own calls from 0, whatever the other has issued.
C28_InstanceScopedState ==
  /\ [](NumbersItsOwnCalls(ThisSession) /\ NumbersItsOwnCalls(other))
  /\ [][IF other'.session = other.session
        THEN other' = other
        ELSE other' = ThisSession /\ ThisSession' = other]_vars

\* each of the two clients has a creation waiting under call id 0, and the one
\* operated on has just received the response to its own
C28_Witness ==
  /\ Len(other.calls) = 1 /\ Len(calls) = 1
  /\ other.calls[1].call_id = 0 /\ calls[1].call_id = 0
  /\ MapHas(other.pendingCreates, 0) /\ other.calls[1].outcome.kind = "pending"
  /\ last.ev = "text" /\ calls[1].outcome.kind = "resolved"

\* the last frame was of the other kind than the one that answers call h, and
\* carried h's call id while h was registered and waiting
CrossedResponse(h) ==
  /\ Existed(h) /\ WasPending(h) /\ HadEntry(h)
  /\ IF IsCreate(h) THEN IsServiceResponseFor(calls[h].call_id)
                    ELSE IsCreateResponseFor(calls[h].call_id)

\* C31: #onTextPayload looks in #pendingCreates only and #onBinaryPayload in
\* #serviceResponses only.  A CreateResponse that carries the call id of a
\* waiting service call, and a SERVICE_RESPONSE that carries the call id of a
\* waiting creation, invoke nothing and leave the call waiting, its entry in
\* place and every table, the counter and every promise as they were.
C31_SeparateTables ==
  \A h \in Handles :
     CrossedResponse(h) =>
        /\ NothingChanged
        /\ last.invoked = << >>
        /\ ~last.threw
        /\ calls[h].outcome.kind = "pending"
        /\ EntryPresent(h)

\* a CreateResponse came with the call id of a waiting service call while a
\* creation was waiting as well
C31_Witness ==
  \E h \in Handles :
     /\ ~IsCreate(h) /\ CrossedResponse(h)
     /\ pendingCreates # EmptyMap

\* what destroy leaves alone, and that it hands the socket the one text frame
\* {op: destroy, id} and nothing else
DestroyTouchesOnlyItsKey ==
  LET id == last.input[1]
  IN  /\ \A k \in DOMAIN Before.subscriptions :
            k # id => (MapHas(subscriptions, k) /\ subscriptions[k] = Before.subscriptions[k])
      /\ (DOMAIN subscriptions) \subseteq (DOMAIN Before.subscriptions)
      /\ pendingCreates = Before.pendingCreates
      /\ serviceResponses = Before.serviceResponses
      /\ nextCallId = Before.nextCallId
      /\ calls = Before.calls
      /\ last.invoked = << >>
      /\ Len(last.sent) <= 1
      /\ ~last.threw => last.sent = <<DestroyRequestFrame(id)>>
      /\ last.threw => last.sent = << >>

\* C32: destroy(id) removes the entry of #subscriptions whose key is the number
\* id, whichever kind of endpoint the id was issued for, keeps every other
\* entry, both pending tables and the counter, and sends the one text frame
\* {op: destroy, id}.
C32_DestroyByNumericId ==
  last.ev = "destroy" =>
     /\ ~MapHas(subscriptions, last.input[1])
     /\ DestroyTouchesOnlyItsKey

\* the number is 2^32 or more
Beyond32Bits(n) == n[5] > 0
\* the call id bytes 5-8 of the frame the last callService sent spell
WireCallId == GetUint32Wide(last.sent[1].bytes, 5)

\* C33: the counter goes on past 2^32 - 1 without wrapping or being reset, and
\* the resolver is registered under the counter's value.  Below 2^32 the four
\* little-endian bytes 5-8 of the SERVICE_REQUEST spell that key; from 2^32 on
\* they spell the key modulo 2^32, which is not the key, and a SERVICE_RESPONSE
\* that echoes them leaves the call waiting and its entry in place.
C33_CallIdWidth ==
  /\ last.ev = "call_service" =>
       LET h == Len(calls)
           key == Before.nextCallId
       IN  /\ nextCallId = PlusOne(key)
           /\ nextCallId # <<0, 0, 0, 0, 0>>
           /\ calls[h].call_id = key
           /\ MapHas(serviceResponses, key) /\ serviceResponses[key] = h
           /\ SubSeq(last.sent[1].bytes, 6, 9) = SubSeq(key, 1, 4)
           /\ ~Beyond32Bits(key) => WireCallId = key
           /\ Beyond32Bits(key) => WireCallId # key
  /\ last.ev = "binary" =>
       /\ nextCallId = Before.nextCallId
       /\ \A h \in Handles :
            (/\ WasPending(h) /\ HadEntry(h)
             /\ Beyond32Bits(calls[h].call_id)
             /\ SubSeq(last.input, 2, 5) = SetUint32Wide(calls[h].call_id)) =>
               /\ calls[h].outcome.kind = "pending"
               /\ EntryPresent(h)
               /\ InvokedFor(h) = {}

\* a call was issued at counter value 2^32, its frame carried call id 0, and
\* the response echoing 0 has come and left it waiting
C33_Witness ==
  /\ last.ev = "binary"
  /\ SubSeq(last.input, 2, 5) = <<0, 0, 0, 0>>
  /\ \E h \in Handles :
        /\ calls[h].call_id = <<0, 0, 0, 0, 1>>
        /\ WasPending(h) /\ calls[h].outcome.kind = "pending" /\ EntryPresent(h)

====
